---- MODULE Spec2Model ----
(***************************************************************************)
(* A TLA+ model of the L5X sequence extractor: the Sequence-Detail         *)
(* reconstruction (exporters/sequence_detail_exporter.py), the extraction  *)
(* pipeline (pipeline/extraction_pipeline.py), the array validator and the *)
(* valve-mapping extractor.                                                *)
(*                                                                         *)
(* Text is modelled as a sequence of lexemes (TLA+ strings are atomic):    *)
(* a substring test is a test on the lexemes of the text, a capture group  *)
(* is the sub-sequence it covers, and Python's None is the string NoneStr  *)
(* (NoneInt for an integer).                                               *)
(***************************************************************************)
EXTENDS Integers, Sequences, FiniteSets, TLC

VARIABLES
    \* ---- SequenceDetailExporter._create_sequence_detail_sheet ----
    common_data,          \* sequences of the common routine
    model_data,           \* sequences of the model routine
    all_actuators_data,   \* actuators_by_mm: MM -> list of actuators
    transitions_data,     \* list of transitions
    digital_inputs_data,  \* list of digital inputs
    valve_mappings_data,  \* MM -> valve mapping (mm_to_valve)
    cylinder_state,       \* (mm, index) -> state record
    rows,                 \* the data rows written to the worksheet, in order
    id_counter,           \* next value of the ID column
    transition_idx,       \* position of the transitions loop (0-based)
    matched,              \* per processed transition: the matched sequence index
    pc,                   \* position in the export
    \* ---- SequenceDetailExporter._expand_permission_to_wait_conditions ----
    wait_permission,      \* the permission to expand
    wait_inputs,          \* the digital inputs it is expanded with
    wait_conditions,      \* the returned list of wait conditions
    wait_pc,              \* "call" before the call, "returned" after
    \* ---- ArrayValidator.validate_actuators ----
    val_tags,             \* the program tags of the document, in document order
    val_mm,               \* mm_number
    val_actuators,        \* the list of found actuators
    validation,           \* the returned dictionary
    val_pc,               \* "call" before the call, "returned" after
    \* ---- ExtractionPipeline.extract_sequences_with_actuators ----
    document,             \* the programs of the document, in document order
    program_name,         \* the fixture the call is scoped to (None: unscoped)
    routine_lines,        \* the lines of the routine that was found
    line_idx,             \* number of lines processed
    sequences_dict,       \* sequences: (sequence, step, action) -> action data
    sequence_names,       \* sequence index -> descriptive name
    formatted,            \* the returned list of sequences
    seq_pc,               \* position in the extraction
    previous_runs,        \* what the earlier calls on this pipeline returned
    \* ---- ExtractionPipeline.run ----
    fixture_programs,     \* the result of find_fixture_programs, and what
                          \* the file system does for each of them
    fixture_idx,          \* position of the fixtures loop (1-based)
    routine_idx,          \* position of the routines loop (1-based)
    all_routines_data,    \* the records collected so far
    run_pc,               \* position in run; "raised" when run has raised
    \* ---- ValveMappingExtractor.extract ----
    valve_document,       \* the fixture program and the MapIo program
    valve_program_name,   \* the fixture the call is scoped to
    mm_commands,          \* MM -> work and home command, in insertion order
    valve_mappings,       \* the list of mappings find_items returns
    mappings_dict,        \* format_output: MM -> mapping
    valve_pc,             \* position in the extraction
    \* ---- one call of a function of the document ----
    call_args,            \* the arguments of the call
    call_result,          \* what the call returned
    call_pc               \* "call" before the call, "returned" after

detailVars == <<common_data, model_data, all_actuators_data, transitions_data,
                digital_inputs_data, valve_mappings_data, cylinder_state, rows,
                id_counter, transition_idx, matched, pc>>

waitVars == <<wait_permission, wait_inputs, wait_conditions, wait_pc>>

validateVars == <<val_tags, val_mm, val_actuators, validation, val_pc>>

seqVars == <<document, program_name, routine_lines, line_idx, sequences_dict,
             sequence_names, formatted, seq_pc, previous_runs>>

runVars == <<fixture_programs, fixture_idx, routine_idx, all_routines_data,
             run_pc>>

valveVars == <<valve_document, valve_program_name, mm_commands, valve_mappings,
               mappings_dict, valve_pc>>

callVars == <<call_args, call_result, call_pc>>

otherThanDetail == <<waitVars, validateVars, seqVars, runVars, valveVars, callVars>>
otherThanWait == <<detailVars, validateVars, seqVars, runVars, valveVars, callVars>>
otherThanValidate == <<detailVars, waitVars, seqVars, runVars, valveVars, callVars>>
otherThanSeq == <<detailVars, waitVars, validateVars, runVars, valveVars, callVars>>
otherThanRun == <<detailVars, waitVars, validateVars, seqVars, valveVars, callVars>>
otherThanValve == <<detailVars, waitVars, validateVars, seqVars, runVars, callVars>>
otherThanCall == <<detailVars, waitVars, validateVars, seqVars, runVars, valveVars>>

vars == <<detailVars, waitVars, validateVars, seqVars, runVars, valveVars, callVars>>

\* a component that takes no part in a specification stays idle
DetailIdle ==
    /\ common_data = <<>>
    /\ model_data = <<>>
    /\ all_actuators_data = <<>>
    /\ transitions_data = <<>>
    /\ digital_inputs_data = <<>>
    /\ valve_mappings_data = <<>>
    /\ cylinder_state = <<>>
    /\ rows = <<>>
    /\ id_counter = 1
    /\ transition_idx = 0
    /\ matched = <<>>
    /\ pc = "idle"

WaitIdle ==
    /\ wait_permission = <<>>
    /\ wait_inputs = <<>>
    /\ wait_conditions = <<>>
    /\ wait_pc = "idle"

ValidateIdle ==
    /\ val_tags = <<>>
    /\ val_mm = ""
    /\ val_actuators = <<>>
    /\ validation = <<>>
    /\ val_pc = "idle"

SeqIdle ==
    /\ document = <<>>
    /\ program_name = ""
    /\ routine_lines = <<>>
    /\ line_idx = 0
    /\ sequences_dict = <<>>
    /\ sequence_names = <<>>
    /\ formatted = <<>>
    /\ seq_pc = "idle"
    /\ previous_runs = <<>>

RunIdle ==
    /\ fixture_programs = <<>>
    /\ fixture_idx = 0
    /\ routine_idx = 0
    /\ all_routines_data = <<>>
    /\ run_pc = "idle"

ValveIdle ==
    /\ valve_document = <<>>
    /\ valve_program_name = ""
    /\ mm_commands = <<>>
    /\ valve_mappings = <<>>
    /\ mappings_dict = <<>>
    /\ valve_pc = "idle"

CallIdle ==
    /\ call_args = <<>>
    /\ call_result = <<>>
    /\ call_pc = "idle"

IdleExcept(component) ==
    /\ IF component # "call" THEN CallIdle ELSE TRUE
    /\ IF component # "run" THEN RunIdle ELSE TRUE
    /\ IF component # "valve" THEN ValveIdle ELSE TRUE
    /\ IF component # "seq" THEN SeqIdle ELSE TRUE
    /\ IF component # "validate" THEN ValidateIdle ELSE TRUE
    /\ IF component # "detail" THEN DetailIdle ELSE TRUE
    /\ IF component # "wait" THEN WaitIdle ELSE TRUE

NoneStr == "None"
NoneInt == 0 - 1

\* ---------------------------------------------------------------- bounds
MaxActuators == 2
MaxActions == 2
MaxTransitions == 2
MaxSeqIndex == 3
MaxSequences == 2
MaxValueLexemes == 2
MaxCommentLexemes == 1
MaxDimChars == 2
MaxFoundIndex == 2
MaxNameSymbols == 5
MaxLines == 3

\* ------------------------------------------------------------- utilities
RECURSIVE JoinWith(_, _)
JoinWith(parts, sep) ==
    IF Len(parts) = 0 THEN ""
    ELSE IF Len(parts) = 1 THEN parts[1]
    ELSE parts[1] \o sep \o JoinWith(Tail(parts), sep)

Range(s) == {s[i] : i \in DOMAIN s}

\* str.upper() on the state words of the model
Upper(w) ==
    CASE w = "Home" -> "HOME"
      [] w = "Work" -> "WORK"
      [] w = "home" -> "HOME"
      [] w = "work" -> "WORK"
      [] OTHER -> w

\* ------------------------------------------------ state formatting helpers
\* A formatted state is the list of its blank-separated words: "TO WORK" is
\* <<"TO", "WORK">>.
_format_state_robust(state_value) ==
    IF state_value = NoneStr \/ state_value = "" THEN <<"TO", "HOME">>
    ELSE <<"TO", Upper(state_value)>>

_format_start_condition_state(state_value) ==
    IF Len(state_value) = 0 THEN <<"AT", "HOME">>
    ELSE LET state_normalized ==
                 IF Len(state_value) >= 2 /\ Head(state_value) = "TO"
                 THEN Tail(state_value) ELSE state_value
         IN  IF Len(state_normalized) >= 2 /\ Head(state_normalized) = "AT"
             THEN state_normalized
             ELSE IF Len(state_normalized) = 0 THEN <<"AT", "HOME">>
             ELSE <<"AT">> \o state_normalized

_format_actor_group_name(name) ==
    IF Len(name) = 0 THEN NoneStr ELSE "'=" \o JoinWith(name, "-")

\* the MM tag names compared as text, not by their number
_extract_mm_number_from_key_as_text(mm_number) ==
    CASE mm_number = "MM1" -> 1
      [] mm_number = "MM10" -> 2
      [] mm_number = "MM2" -> 3
      [] OTHER -> 999

_extract_mm_number_from_key(mm_number) ==
    CASE mm_number = "MM1" -> 1
      [] mm_number = "MM2" -> 2
      [] mm_number = "MM10" -> 10
      [] OTHER -> 999

\* Lexicographic order on tuples of integers of equal length (Python's tuple
\* comparison of sort keys).
RECURSIVE TupleLess(_, _)
TupleLess(a, b) ==
    IF Len(a) = 0 \/ Len(b) = 0 THEN Len(a) < Len(b)
    ELSE IF a[1] # b[1] THEN a[1] < b[1]
    ELSE TupleLess(Tail(a), Tail(b))

\* list.sort(key=...) / sorted(..., key=...): a stable sort.
StableSortBy(seq, Key(_)) ==
    LET n == Len(seq)
        pos(i) == 1 + Cardinality({j \in 1..n :
                        \/ TupleLess(Key(seq[j]), Key(seq[i]))
                        \/ (Key(seq[j]) = Key(seq[i]) /\ j < i)})
    IN  [k \in 1..n |-> seq[CHOOSE i \in 1..n : pos(i) = k]]

RECURSIVE SetToSeq(_)
SetToSeq(S) ==
    IF S = {} THEN <<>>
    ELSE LET x == CHOOSE y \in S : TRUE IN <<x>> \o SetToSeq(S \ {x})

\* sorted(S) of a set of integers
SortedSeq(S) == StableSortBy(SetToSeq(S), LAMBDA x : <<x>>)

\* ----------------------------------------------------- the input documents
MMs == {"MM1", "MM2"}

Actuator(mm, i) == [index |-> i, description |-> <<mm, "MMB" \o ToString(i + 1)>>]

ActuatorsOf(mm, n) == [k \in 1..n |-> Actuator(mm, k - 1)]

\* kind = <<mm_number, state, number of actuators found for the MM>>
TypedAction(ai, kind) ==
    [action_index |-> ai, mm_number |-> kind[1], state |-> kind[2],
     actuators |-> ActuatorsOf(kind[1], kind[3])]

UntypedAction(ai) ==
    [action_index |-> ai, mm_number |-> NoneStr, state |-> NoneStr,
     actuators |-> <<>>]

MkAction(ai, kind) ==
    IF kind[1] = NoneStr THEN UntypedAction(ai) ELSE TypedAction(ai, kind)

MkStep(ti, actions) == [step_index |-> ti, actions |-> actions]

MkSequence(si, steps) ==
    [sequence_index |-> si, sequence_name |-> "Seq" \o ToString(si),
     steps |-> steps]

\* The three shapes a list of actions takes in a routine: all in one step,
\* one step each, one sequence each.
Shapes == {"one_step", "one_sequence", "many_sequences"}

MkSequences(kinds, shape) ==
    LET n == Len(kinds) IN
    IF n = 0 THEN <<>>
    ELSE CASE shape = "one_step" ->
                <<MkSequence(0, <<MkStep(0, [k \in 1..n |-> MkAction(k - 1, kinds[k])])>>)>>
           [] shape = "one_sequence" ->
                <<MkSequence(0, [k \in 1..n |-> MkStep(k - 1, <<MkAction(0, kinds[k])>>)])>>
           [] OTHER ->
                [k \in 1..n |-> MkSequence(k - 1, <<MkStep(0, <<MkAction(0, kinds[k])>>)>>)]

SeqsUpTo(S, n) == UNION {[1..k -> S] : k \in 0..n}

CommonKinds == {<<"MM1", "Work", 2>>, <<"MM1", "Home", 1>>, <<"MM2", "Work", 2>>}
ModelKinds == {<<"MM1", "Work", 1>>, <<"MM2", "Home", 2>>, <<NoneStr, NoneStr, 0>>}

SequencesOver(kindset) ==
    {MkSequences(kinds, shape) : kinds \in SeqsUpTo(kindset, MaxActions), shape \in Shapes}

MkData(routine_name, sequences) ==
    [routine_name |-> routine_name, sequences |-> sequences]

\* ------------------------------------------------------------- permissions
\* A permission value and a comment are lists of lexemes.  The classes below
\* say which lexemes of the model the patterns of
\* _expand_permission_to_wait_conditions match.
AllPartsLexemes == {"AllPartsPresent"}
SpecificPartLexemes == {"Part1Present", "Part2Valid"}
TimerLexemes == {"Timer500ms", "StartDelay"}
RobotValueLexemes == {"R1.Rbt.Ready"}
CylinderLexemes == {"MM4.stsAtHome", "MM4_Work", "MM4_WORK", "MM4.stsAt"}
PlainValueLexemes == {"CycleEnable"}
ValueLexemes ==
    AllPartsLexemes \cup SpecificPartLexemes \cup TimerLexemes \cup
    RobotValueLexemes \cup CylinderLexemes \cup PlainValueLexemes

OperatorCommentLexemes == {"Operator 2", "operator", "Load", "Leave"}
RobotCommentLexemes == {"Robot 3", "robot"}
PlainCommentLexemes == {"Wait for clamp", "Unload"}
CommentLexemes ==
    OperatorCommentLexemes \cup RobotCommentLexemes \cup PlainCommentLexemes

MkPermission(pi, value, comment) ==
    [permission_index |-> pi, permission_value |-> value, comment |-> comment]

\* re.search(r'Part(\d+)', permission_value): the part number of the first
\* lexeme that names a numbered part
PartNumberOf(lexeme) ==
    CASE lexeme = "Part1Present" -> "1"
      [] lexeme = "Part2Valid" -> "2"
      [] OTHER -> NoneStr

\* the groups of MM(\d+)[._]?(Home|Work|stsAt(Home|Work)) under
\* re.IGNORECASE: <<number, state>> as spelt in the lexeme, or <<>> when that
\* pattern does not match the lexeme
CylinderGroups(lexeme) ==
    CASE lexeme = "MM4.stsAtHome" -> <<"4", "stsAtHome">>
      [] lexeme = "MM4_Work" -> <<"4", "Work">>
      [] lexeme = "MM4_WORK" -> <<"4", "WORK">>
      [] OTHER -> <<>>

_extract_duration(text) ==
    IF \E i \in DOMAIN text : text[i] = "Timer500ms" THEN "500ms" ELSE ""

\* Rbt[._]?(\d+) matches no value lexeme of the model (in "R1.Rbt.Ready" no
\* digit follows "Rbt."); Robot\s*(\d+) matches the comment lexeme "Robot 3"
_extract_robot_unit(permission_value, comment) ==
    IF \E i \in DOMAIN comment : comment[i] = "Robot 3" THEN "Robot 3"
    ELSE "Robot 1"

\* ---------------------------------------------------------- digital inputs
MkInput(tag, part) ==
    [tag_name |-> tag, description |-> "", part_assignment |-> part]

BGParts == {"BG1", "BG2", "BG3"}
StartsWithBG(tag_name) == Len(tag_name) > 0 /\ tag_name[1] \in BGParts

\* Python's order on the names of the model, as a rank
StrRank(str) ==
    CASE str = "" -> 0
      [] str = "BG1" -> 1
      [] str = "BG2" -> 2
      [] str = "BG3" -> 3
      [] str = "BGB1" -> 4
      [] str = "PartLeft" -> 5
      [] str = "PartRight" -> 6
      [] str = "SQ1" -> 7
      [] OTHER -> 8

\* the sort key of a tag name (a list of '_'-separated parts)
TagKey(tag_name) == [k \in DOMAIN tag_name |-> StrRank(tag_name[k])]

_sort_part_name(part_name) ==
    CASE part_name = "Part1" -> <<0, 1, StrRank("")>>
      [] part_name = "Part2" -> <<0, 2, StrRank("")>>
      [] part_name = "Part10" -> <<0, 10, StrRank("")>>
      [] OTHER -> <<1, 0, StrRank(part_name)>>

\* every input with a part assignment, whatever its tag name
PartSensors_any_tag(digital_inputs) ==
    SelectSeq(digital_inputs, LAMBDA d : d.part_assignment # "N/A")

PartSensors(digital_inputs) ==
    SelectSeq(digital_inputs,
              LAMBDA d : d.part_assignment # "N/A" /\ StartsWithBG(d.tag_name))

\* ------------------------------------------------- wait-condition expansion
HasLexeme(text, S) == \E i \in DOMAIN text : text[i] \in S

FirstLexeme(text, S) == text[CHOOSE i \in DOMAIN text :
                               text[i] \in S /\ \A j \in 1..(i - 1) : text[j] \notin S]

\* The condition of the r-th branch of the if/elif chain (r = 7: the else).
RuleCondition(r, permission_value, comment) ==
    CASE r = 1 -> HasLexeme(permission_value, AllPartsLexemes)
      [] r = 2 -> HasLexeme(permission_value, SpecificPartLexemes)
      [] r = 3 -> HasLexeme(permission_value, TimerLexemes)
      [] r = 4 -> HasLexeme(comment, OperatorCommentLexemes)
      [] r = 5 -> \/ HasLexeme(permission_value, RobotValueLexemes)
                  \/ HasLexeme(comment, RobotCommentLexemes)
      [] r = 6 -> HasLexeme(permission_value, CylinderLexemes)
      [] OTHER -> TRUE

WaitCondition(actor_type, actor_unit, custom_desc, custom_duration, status, standard_duration, group_desc, group_name) ==
    [actor_type |-> actor_type, actor_unit |-> actor_unit,
     custom_desc |-> custom_desc, custom_duration |-> custom_duration,
     status |-> status, standard_duration |-> standard_duration,
     group_desc |-> group_desc, group_name |-> group_name]

SensorWaitCondition(digital_input) ==
    WaitCondition("SensorUnits", NoneStr, NoneStr, NoneStr, "ON", "0.0",
                  IF digital_input.description # "" THEN digital_input.description
                  ELSE digital_input.part_assignment,
                  _format_actor_group_name(digital_input.tag_name))

GenericWaitCondition(permission_value, comment) ==
    WaitCondition(NoneStr, NoneStr, JoinWith(permission_value, " "), NoneStr,
                  NoneStr, "0.0", JoinWith(comment, " "), NoneStr)

\* a missing duration ('' from both texts) stays ''
DurationOf(first, second) ==
    IF _extract_duration(first) # "" THEN _extract_duration(first)
    ELSE _extract_duration(second)

\* the chain with the operator test tried before the timer test
BranchTaken_operator_first(permission_value, comment) ==
    IF RuleCondition(1, permission_value, comment) THEN 1
    ELSE IF RuleCondition(2, permission_value, comment) THEN 2
    ELSE IF RuleCondition(4, permission_value, comment) THEN 4
    ELSE IF RuleCondition(3, permission_value, comment) THEN 3
    ELSE IF RuleCondition(5, permission_value, comment) THEN 5
    ELSE IF RuleCondition(6, permission_value, comment) THEN 6
    ELSE 7

\* The branch the if/elif chain takes: the first whose condition holds, tried
\* in the order of the source.
BranchTaken(permission_value, comment) ==
    IF RuleCondition(1, permission_value, comment) THEN 1
    ELSE IF RuleCondition(2, permission_value, comment) THEN 2
    ELSE IF RuleCondition(3, permission_value, comment) THEN 3
    ELSE IF RuleCondition(4, permission_value, comment) THEN 4
    ELSE IF RuleCondition(5, permission_value, comment) THEN 5
    ELSE IF RuleCondition(6, permission_value, comment) THEN 6
    ELSE 7

BranchRows(branch, permission_value, comment, digital_inputs) ==
    CASE branch = 1 ->
            LET sensors_list == StableSortBy(PartSensors(digital_inputs),
                                    LAMBDA d : _sort_part_name(d.part_assignment))
            IN  [k \in 1..Len(sensors_list) |-> SensorWaitCondition(sensors_list[k])]
      [] branch = 2 ->
            LET part_num == PartNumberOf(FirstLexeme(permission_value, SpecificPartLexemes))
                target_part == "Part" \o part_num
                hits == SelectSeq(digital_inputs,
                            LAMBDA d : d.part_assignment = target_part
                                       /\ StartsWithBG(d.tag_name))
            IN  [k \in 1..Len(hits) |-> SensorWaitCondition(hits[k])]
      [] branch = 3 ->
            <<WaitCondition("Timers", NoneStr,
                  IF Len(comment) > 0 THEN JoinWith(comment, " ")
                  ELSE JoinWith(permission_value, " "),
                  DurationOf(permission_value, comment), NoneStr, "0.0",
                  NoneStr, NoneStr)>>
      [] branch = 4 ->
            <<WaitCondition("Operators", NoneStr, JoinWith(comment, " "),
                  DurationOf(comment, permission_value), NoneStr, NoneStr,
                  NoneStr, NoneStr)>>
      [] branch = 5 ->
            <<WaitCondition("Robots", _extract_robot_unit(permission_value, comment),
                  IF Len(comment) > 0 THEN JoinWith(comment, " ")
                  ELSE JoinWith(permission_value, " "),
                  DurationOf(comment, permission_value), NoneStr, NoneStr,
                  NoneStr, NoneStr)>>
      [] branch = 6 ->
            IF \E i \in DOMAIN permission_value :
                   CylinderGroups(permission_value[i]) # <<>>
            THEN LET lexeme == permission_value[CHOOSE i \in DOMAIN permission_value :
                                   /\ CylinderGroups(permission_value[i]) # <<>>
                                   /\ \A j \in 1..(i - 1) :
                                          CylinderGroups(permission_value[j]) = <<>>]
                     groups == CylinderGroups(lexeme)
                     state == IF groups[2] \in {"Work", "stsAtWork"} THEN "Work" ELSE "Home"
                 IN  <<WaitCondition("CylinderUnits", NoneStr, NoneStr, NoneStr,
                           JoinWith(_format_state_robust(state), " "), "0.0",
                           "MM" \o groups[1] \o " Group", "MM" \o groups[1])>>
            ELSE <<GenericWaitCondition(permission_value, comment)>>
      [] OTHER -> <<GenericWaitCondition(permission_value, comment)>>

_expand_permission_to_wait_conditions(permission, digital_inputs) ==
    BranchRows(BranchTaken(permission.permission_value, permission.comment),
               permission.permission_value, permission.comment, digital_inputs)

\* ------------------------------------------------------------ valve names
\* re.search(r'KJ(\d{1,2})', manifold) on the manifold names of the model
_extract_kj_name(manifold) ==
    CASE manifold = "_010_UA1_KJ1_Hw" -> "KJ1"
      [] manifold = "_020_UA2_KJ12_Hw" -> "KJ12"
      [] OTHER -> "N/A"

\* A valve position is the list of its characters: '1A' is <<"1", "A">>,
\* 'N/A' is <<"N/A">> and '' is <<>>.
RECURSIVE RStripAB(_)
RStripAB(valve_position) ==
    IF Len(valve_position) > 0 /\ valve_position[Len(valve_position)] \in {"A", "B"}
    THEN RStripAB(SubSeq(valve_position, 1, Len(valve_position) - 1))
    ELSE valve_position

_build_valve_diagram_name(kj_name, valve_position) ==
    IF kj_name = "N/A" \/ Len(valve_position) = 0 \/ valve_position = <<"N/A">>
    THEN "N/A"
    ELSE "'=" \o kj_name \o "-QMB" \o JoinWith(RStripAB(valve_position), "")

\* the home position whatever the state
_select_valve_position_home(state, valve_info) == valve_info.valve_home

\* state is a formatted state (a list of upper-case words)
_select_valve_position(state, valve_info) ==
    IF "WORK" \in Range(state) THEN valve_info.valve_work
    ELSE valve_info.valve_home

_calculate_valve_name(state, mm_number, mm_to_valve) ==
    IF mm_number \notin DOMAIN mm_to_valve THEN NoneStr
    ELSE LET valve_info == mm_to_valve[mm_number]
             valve_position == _select_valve_position(state, valve_info)
         IN  IF valve_info.manifold = "" THEN NoneStr
             ELSE IF Len(valve_position) = 0 \/ valve_position = <<"N/A">> THEN NoneStr
             ELSE _build_valve_diagram_name(_extract_kj_name(valve_info.manifold),
                                            valve_position)

ValveInfo(manifold, valve_work, valve_home) ==
    [manifold |-> manifold, valve_work |-> valve_work, valve_home |-> valve_home]

\* the valve-mapping tables the export is run with
ValveMappingChoices ==
    { [mm \in {"MM1"} |-> ValveInfo("_010_UA1_KJ1_Hw", <<"1", "A">>, <<"N/A">>)],
      [mm \in {"MM1", "MM2"} |->
          IF mm = "MM1" THEN ValveInfo("_010_UA1_KJ1_Hw", <<"1", "A">>, <<"1", "B">>)
          ELSE ValveInfo("_020_UA2_KJ12_Hw", <<"2", "A">>, <<"2", "B">>)] }

\* mm_to_description, built from the actuator groups
ActuatorGroups == [mm \in {"MM1"} |-> "Clamp 1"]

mm_to_description(mm_number) ==
    IF mm_number \in DOMAIN ActuatorGroups THEN ActuatorGroups[mm_number] ELSE ""

\* ---------------------------------------------------------- cylinder state
CylinderInfo(actuator, mm_number, mm_to_valve) ==
    [actuator_name |-> actuator.description,
     state |-> <<"HOME">>,
     mm_number |-> mm_number,
     description |-> mm_to_description(mm_number),
     manifold |-> IF mm_number \in DOMAIN mm_to_valve
                  THEN mm_to_valve[mm_number].manifold ELSE "",
     valve_work |-> IF mm_number \in DOMAIN mm_to_valve
                    THEN mm_to_valve[mm_number].valve_work ELSE <<>>,
     valve_home |-> IF mm_number \in DOMAIN mm_to_valve
                    THEN mm_to_valve[mm_number].valve_home ELSE <<>>]

\* Every enumerated actuator starts in HOME, keyed by (mm_number, index); a
\* later actuator of the same key replaces an earlier one.
InitialCylinderState(actuators_by_mm, mm_to_valve) ==
    LET keys == UNION {{<<mm, actuators_by_mm[mm][k].index>> :
                            k \in DOMAIN actuators_by_mm[mm]} :
                       mm \in DOMAIN actuators_by_mm}
        last(key) == CHOOSE k \in DOMAIN actuators_by_mm[key[1]] :
                        /\ actuators_by_mm[key[1]][k].index = key[2]
                        /\ \A j \in DOMAIN actuators_by_mm[key[1]] :
                               actuators_by_mm[key[1]][j].index = key[2] => j <= k
    IN  [key \in keys |->
            CylinderInfo(actuators_by_mm[key[1]][last(key)], key[1], mm_to_valve)]

\* a replay that writes the state without the test unique_key in
\* cylinder_state, so an actuator that is not enumerated gets an entry
ApplyAction_unconditional(state_map, action) ==
    LET named == {<<action.mm_number, action.actuators[k].index>> :
                      k \in DOMAIN action.actuators}
    IN  [key \in DOMAIN state_map \cup named |->
            IF key \in named
            THEN IF key \in DOMAIN state_map
                 THEN [state_map[key] EXCEPT !.state = _format_state_robust(action.state)]
                 ELSE [actuator_name |-> <<>>,
                       state |-> _format_state_robust(action.state),
                       mm_number |-> key[1], description |-> "", manifold |-> "",
                       valve_work |-> <<>>, valve_home |-> <<>>]
            ELSE state_map[key]]

\* One action of a replay: every actuator it lists that is enumerated takes
\* the action's formatted state.
ApplyAction(state_map, action) ==
    [key \in DOMAIN state_map |->
        IF /\ key[1] = action.mm_number
           /\ \E k \in DOMAIN action.actuators : action.actuators[k].index = key[2]
        THEN [state_map[key] EXCEPT !.state = _format_state_robust(action.state)]
        ELSE state_map[key]]

RECURSIVE ApplyActions(_, _)
ApplyActions(state_map, actions) ==
    IF Len(actions) = 0 THEN state_map
    ELSE ApplyActions(ApplyAction(state_map, Head(actions)), Tail(actions))

RECURSIVE ApplySteps(_, _)
ApplySteps(state_map, steps) ==
    IF Len(steps) = 0 THEN state_map
    ELSE ApplySteps(ApplyActions(state_map, Head(steps).actions), Tail(steps))

RECURSIVE ApplySequences(_, _)
ApplySequences(state_map, sequences) ==
    IF Len(sequences) = 0 THEN state_map
    ELSE ApplySequences(ApplySteps(state_map, Head(sequences).steps), Tail(sequences))

CommonOverride(state_map, common) == ApplySequences(state_map, common.sequences)

\* a replay of every sequence of the model routine, not only the first
ModelOverride_all_sequences(state_map, model) ==
    ApplySequences(state_map, model.sequences)

ModelOverride(state_map, model) ==
    IF Len(model.sequences) = 0 THEN state_map
    ELSE ApplySteps(state_map, model.sequences[1].steps)

sorted_cylinders(state_map) ==
    StableSortBy(SetToSeq(DOMAIN state_map),
                 LAMBDA key : <<_extract_mm_number_from_key(key[1]), key[2]>>)

\* ---------------------------------------------------------- worksheet rows
\* One data row of the sheet: the twelve filled columns (the five timing
\* columns are always empty).  Durations are written as their literals.
Row(style, row_type, actor_type, custom_desc, custom_duration, status, standard_duration, group_desc, group_name, valve_name) ==
    [id |-> 0, style |-> style, row_type |-> row_type, actor_type |-> actor_type,
     actor_unit |-> NoneStr, custom_desc |-> custom_desc,
     custom_duration |-> custom_duration, status |-> status,
     standard_duration |-> standard_duration, group_desc |-> group_desc,
     group_name |-> group_name, valve_name |-> valve_name]

\* a numbering that leaves the ID after the counter unused
Numbered_skipping(new_rows, start) ==
    [k \in 1..Len(new_rows) |-> [new_rows[k] EXCEPT !.id = start + k]]

\* the rows get consecutive IDs from id_counter on
Numbered(new_rows, start) ==
    [k \in 1..Len(new_rows) |-> [new_rows[k] EXCEPT !.id = start + k - 1]]

RECURSIVE Flatten(_)
Flatten(lists) ==
    IF Len(lists) = 0 THEN <<>> ELSE Head(lists) \o Flatten(Tail(lists))

StartConditionsHeaderRow ==
    Row("Common", "Start Conditions Header", NoneStr, "HomePos", NoneStr,
        NoneStr, NoneStr, NoneStr, NoneStr, NoneStr)

CylinderRow(info, mm_to_valve) ==
    Row("Common", "Start Conditions", "CylinderUnits", NoneStr, NoneStr,
        JoinWith(_format_start_condition_state(info.state), " "), "0.0",
        info.description, _format_actor_group_name(info.actuator_name),
        _calculate_valve_name(info.state, info.mm_number, mm_to_valve))

CylinderRows(state_map, mm_to_valve) ==
    LET keys == sorted_cylinders(state_map)
    IN  [k \in 1..Len(keys) |-> CylinderRow(state_map[keys[k]], mm_to_valve)]

SensorRow(part_name, sensor_name) ==
    Row("Common", "Start Conditions", "SensorUnits", NoneStr, NoneStr, "OFF",
        "0.0", part_name, _format_actor_group_name(sensor_name), NoneStr)

\* sensors grouped by part (parts in order of first appearance), the parts
\* sorted by _sort_part_name, the sensors of a part sorted by tag name
SensorRows(digital_inputs) ==
    LET sensors == PartSensors(digital_inputs)
        firsts == SelectSeq([k \in 1..Len(sensors) |->
                                [part |-> sensors[k].part_assignment, at |-> k]],
                            LAMBDA e : \A j \in 1..(e.at - 1) :
                                           sensors[j].part_assignment # e.part)
        sorted_parts == StableSortBy(firsts, LAMBDA e : _sort_part_name(e.part))
        of_part(part_name) ==
            StableSortBy(SelectSeq(sensors, LAMBDA d : d.part_assignment = part_name),
                         LAMBDA d : TagKey(d.tag_name))
    IN  Flatten([k \in 1..Len(sorted_parts) |->
                    LET part_name == sorted_parts[k].part
                    IN  [j \in 1..Len(of_part(part_name)) |->
                            SensorRow(part_name, of_part(part_name)[j].tag_name)]])

\* routine_name.split('_')[-1]: a routine name is the list of its '_' parts
sequence_style(model) ==
    IF Len(model.routine_name) = 0 THEN ""
    ELSE model.routine_name[Len(model.routine_name)]

SequenceHeaderRow(style, custom_desc) ==
    Row(style, "Sequence Header", NoneStr, custom_desc, NoneStr, NoneStr,
        NoneStr, NoneStr, NoneStr, NoneStr)

\* A transition name is the list of its ' - ' separated parts; a transition
\* without a descriptive name carries None.
NoneName == <<NoneStr>>
TransitionStateLexemes == {"Transition State 1"}
FixedStateLexemes == {"Fixed State 0"}

StateMarkerRow(transition_name, style) ==
    LET tagged == \/ HasLexeme(transition_name, TransitionStateLexemes)
                  \/ HasLexeme(transition_name, FixedStateLexemes)
        state_name == IF tagged /\ Len(transition_name) >= 2
                      THEN JoinWith(Tail(transition_name), " - ")
                      ELSE JoinWith(transition_name, " - ")
    IN  Row(style,
            IF HasLexeme(transition_name, TransitionStateLexemes)
            THEN "Transition State" ELSE "Fixed State",
            NoneStr, state_name, NoneStr, NoneStr, NoneStr, NoneStr, NoneStr,
            NoneStr)

WaitRow(wait_condition, style) ==
    Row(style, "Wait Conditions", wait_condition.actor_type,
        wait_condition.custom_desc, wait_condition.custom_duration,
        wait_condition.status, wait_condition.standard_duration,
        wait_condition.group_desc, wait_condition.group_name, NoneStr)

WaitRows(permissions, digital_inputs, style) ==
    Flatten([k \in 1..Len(permissions) |->
        LET conditions ==
                _expand_permission_to_wait_conditions(permissions[k], digital_inputs)
        IN  [j \in 1..Len(conditions) |-> WaitRow(conditions[j], style)]])

\* The position in the sequence list of the sequence correlated to the
\* transition with index transition_index at 0-based position transition_idx
\* (0: no sequence).  sequences_by_index keeps the last sequence of an index.
IndexPosition(sequences, index) ==
    IF \E k \in DOMAIN sequences : sequences[k].sequence_index = index
    THEN CHOOSE k \in DOMAIN sequences :
            /\ sequences[k].sequence_index = index
            /\ \A j \in DOMAIN sequences :
                   sequences[j].sequence_index = index => j <= k
    ELSE 0

MatchingSequence(sequences, transition_index, position) ==
    IF IndexPosition(sequences, transition_index) # 0
    THEN IndexPosition(sequences, transition_index)
    ELSE IF IndexPosition(sequences, transition_index + 1) # 0
    THEN IndexPosition(sequences, transition_index + 1)
    ELSE IF position < Len(sequences) THEN position + 1
    ELSE 0

SequenceNameRow(sequence, style) ==
    Row(style, "Transition State", NoneStr, sequence.sequence_name, NoneStr,
        NoneStr, NoneStr, NoneStr, NoneStr, NoneStr)

ActionRows(action, step_name, style, mm_to_valve) ==
    LET state_formatted == _format_state_robust(action.state)
    IN  [k \in 1..Len(action.actuators) |->
            Row(style, step_name, "CylinderUnits", NoneStr, NoneStr,
                JoinWith(state_formatted, " "), "2.0",
                mm_to_description(action.mm_number),
                _format_actor_group_name(action.actuators[k].description),
                _calculate_valve_name(state_formatted, action.mm_number, mm_to_valve))]

\* the rows of a step labelled with the step's own step_index
_write_sequence_actions_by_index(sequence, style, mm_to_valve) ==
    Flatten([step_idx \in 1..Len(sequence.steps) |->
        Flatten([a \in 1..Len(sequence.steps[step_idx].actions) |->
            ActionRows(sequence.steps[step_idx].actions[a],
                       "Step" \o ToString(sequence.steps[step_idx].step_index),
                       style, mm_to_valve)])])

_write_sequence_actions(sequence, style, mm_to_valve) ==
    Flatten([step_idx \in 1..Len(sequence.steps) |->
        Flatten([a \in 1..Len(sequence.steps[step_idx].actions) |->
            ActionRows(sequence.steps[step_idx].actions[a],
                       "Step" \o ToString(step_idx), style, mm_to_valve)])])

\* ------------------------------------------------- the export, step by step
\* lines 181-247: baseline, common override, model override
BuildCylinderState ==
    /\ pc = "build"
    /\ cylinder_state' =
           ModelOverride(
               CommonOverride(
                   InitialCylinderState(all_actuators_data, valve_mappings_data),
                   common_data),
               model_data)
    /\ pc' = "start_conditions"
    /\ UNCHANGED <<common_data, model_data, all_actuators_data, transitions_data,
                   digital_inputs_data, valve_mappings_data, rows, id_counter,
                   transition_idx, matched>>
    /\ UNCHANGED otherThanDetail

\* lines 249-364: the header row, the sorted cylinder rows, the sensor rows
WriteStartConditions ==
    /\ pc = "start_conditions"
    /\ LET new_rows == <<StartConditionsHeaderRow>>
                       \o CylinderRows(cylinder_state, valve_mappings_data)
                       \o SensorRows(digital_inputs_data)
       IN  /\ rows' = rows \o Numbered(new_rows, id_counter)
           /\ id_counter' = id_counter + Len(new_rows)
    /\ pc' = "sequence_header"
    /\ UNCHANGED <<common_data, model_data, all_actuators_data, transitions_data,
                   digital_inputs_data, valve_mappings_data, cylinder_state,
                   transition_idx, matched>>
    /\ UNCHANGED otherThanDetail

\* lines 456-492: nothing is written without transitions
WriteSequenceHeader ==
    /\ pc = "sequence_header"
    /\ IF Len(transitions_data) = 0
       THEN /\ rows' = rows
            /\ id_counter' = id_counter
            /\ pc' = "save"
       ELSE /\ rows' = rows \o Numbered(
                   <<SequenceHeaderRow(sequence_style(model_data),
                                       sequence_style(model_data) \o " Sequence")>>,
                   id_counter)
            /\ id_counter' = id_counter + 1
            /\ pc' = "transitions"
    /\ UNCHANGED <<common_data, model_data, all_actuators_data, transitions_data,
                   digital_inputs_data, valve_mappings_data, cylinder_state,
                   transition_idx, matched>>
    /\ UNCHANGED otherThanDetail

\* lines 495-623: one iteration of the transitions loop.  The test
\* 'Transition State' in transition_name raises TypeError on a None name,
\* before any row of the transition is written.
WriteTransition ==
    /\ pc = "transitions"
    /\ transition_idx < Len(transitions_data)
    /\ LET transition == transitions_data[transition_idx + 1]
           style == sequence_style(model_data)
           position == MatchingSequence(model_data.sequences,
                                        transition.transition_index, transition_idx)
       IN  IF transition.transition_name = NoneName
           THEN /\ pc' = "TypeError"
                /\ UNCHANGED <<rows, id_counter, transition_idx, matched>>
           ELSE LET marker_and_waits ==
                        <<StateMarkerRow(transition.transition_name, style)>>
                        \o WaitRows(transition.permissions, digital_inputs_data, style)
                    sequence_rows ==
                        IF position = 0 THEN <<>>
                        ELSE <<SequenceNameRow(model_data.sequences[position], style)>>
                             \o _write_sequence_actions(model_data.sequences[position],
                                                        style, valve_mappings_data)
                    new_rows == marker_and_waits \o sequence_rows
                IN  /\ rows' = rows \o Numbered(new_rows, id_counter)
                    /\ id_counter' = id_counter + Len(new_rows)
                    /\ transition_idx' = transition_idx + 1
                    /\ matched' = Append(matched,
                           [transition_index |-> transition.transition_index,
                            position |-> position,
                            first_row |-> id_counter,
                            wait_rows |-> Len(marker_and_waits) - 1,
                            last_row |-> id_counter + Len(new_rows) - 1])
                    /\ pc' = pc
    /\ UNCHANGED <<common_data, model_data, all_actuators_data, transitions_data,
                   digital_inputs_data, valve_mappings_data, cylinder_state>>
    /\ UNCHANGED otherThanDetail

\* lines 625-637
WriteEndOfSequence ==
    /\ pc = "transitions"
    /\ transition_idx = Len(transitions_data)
    /\ rows' = rows \o Numbered(
           <<SequenceHeaderRow(sequence_style(model_data), "End Of Sequence")>>,
           id_counter)
    /\ id_counter' = id_counter + 1
    /\ pc' = "save"
    /\ UNCHANGED <<common_data, model_data, all_actuators_data, transitions_data,
                   digital_inputs_data, valve_mappings_data, cylinder_state,
                   transition_idx, matched>>
    /\ UNCHANGED otherThanDetail

\* wb.save(output_path): a PermissionError is re-raised as Exception
Save ==
    /\ pc = "save"
    /\ \E writable \in BOOLEAN :
           pc' = IF writable THEN "saved" ELSE "Exception"
    /\ UNCHANGED <<common_data, model_data, all_actuators_data, transitions_data,
                   digital_inputs_data, valve_mappings_data, cylinder_state, rows,
                   id_counter, transition_idx, matched>>
    /\ UNCHANGED otherThanDetail

\* ------------------------------------------------------ the export's inputs
CommonRoutineName == <<"EmStatesAndSequences", "Common">>
ModelRoutineName == <<"EmStatesAndSequences", "R2S">>

ActuatorTables ==
    {[mm \in MMs |-> ActuatorsOf(mm, n[mm])] : n \in [MMs -> 0..MaxActuators]}

SampleInputs ==
    <<MkInput(<<"BG2">>, "Part2"), MkInput(<<"BG1", "BGB1">>, "Part1"),
      MkInput(<<"SQ1">>, "Part1"), MkInput(<<"BG3">>, "N/A"),
      MkInput(<<"BG1">>, "Part1")>>

MkTransition(ti, name, permissions) ==
    [transition_index |-> ti, transition_name |-> name,
     permission_count |-> Len(permissions), permissions |-> permissions]

SamplePermissions ==
    { <<MkPermission(0, <<"CycleEnable">>, <<>>)>>,
      <<MkPermission(0, <<"AllPartsPresent">>, <<>>),
        MkPermission(1, <<"MM4_Work">>, <<"Wait for clamp">>)>> }

TransitionNames ==
    {NoneName, <<"Transition State 1", "Clamp">>, <<"Open">>}

DetailStart ==
    /\ cylinder_state = <<>>
    /\ rows = <<>>
    /\ id_counter = 1
    /\ transition_idx = 0
    /\ matched = <<>>
    /\ pc = "build"

\* The export run on every pair of common and model routines over the
\* enumerated actuators, with one named transition.
Init ==
    /\ common_data \in {MkData(CommonRoutineName, q) : q \in SequencesOver(CommonKinds)}
    /\ model_data \in {MkData(ModelRoutineName, q) : q \in SequencesOver(ModelKinds)}
    /\ all_actuators_data \in ActuatorTables
    /\ valve_mappings_data \in ValveMappingChoices
    /\ digital_inputs_data = SampleInputs
    /\ transitions_data =
           <<MkTransition(0, <<"Open">>, <<MkPermission(0, <<"CycleEnable">>, <<>>)>>)>>
    /\ DetailStart
    /\ IdleExcept("detail")

Next ==
    \/ BuildCylinderState
    \/ WriteStartConditions
    \/ WriteSequenceHeader
    \/ WriteTransition
    \/ WriteEndOfSequence
    \/ Save

Spec == Init /\ [][Next]_vars

\* ------------------------------------------------------------------- C1
EnumeratedKeys ==
    UNION {{<<mm, all_actuators_data[mm][k].index>> :
                k \in DOMAIN all_actuators_data[mm]} : mm \in DOMAIN all_actuators_data}

\* the (sequence, step, action) list positions of the actions that list the
\* actuator key
References(sequences, key) ==
    {r \in UNION {UNION {{<<q, t, a>> : a \in DOMAIN sequences[q].steps[t].actions} :
                         t \in DOMAIN sequences[q].steps} : q \in DOMAIN sequences} :
        LET action == sequences[r[1]].steps[r[2]].actions[r[3]]
        IN  /\ action.mm_number = key[1]
            /\ \E k \in DOMAIN action.actuators : action.actuators[k].index = key[2]}

LastReferenceState(sequences, key) ==
    LET last == CHOOSE r \in References(sequences, key) :
                    \A o \in References(sequences, key) : o = r \/ TupleLess(o, r)
    IN  Upper(sequences[last[1]].steps[last[2]].actions[last[3]].state)

FirstSequenceOf(model) ==
    IF Len(model.sequences) = 0 THEN <<>> ELSE <<model.sequences[1]>>

ExpectedStartState(key) ==
    IF References(FirstSequenceOf(model_data), key) # {}
    THEN LastReferenceState(FirstSequenceOf(model_data), key)
    ELSE IF References(common_data.sequences, key) # {}
    THEN LastReferenceState(common_data.sequences, key)
    ELSE "HOME"

StartRowsOf(key) ==
    {k \in DOMAIN rows :
        /\ rows[k].row_type = "Start Conditions"
        /\ rows[k].actor_type = "CylinderUnits"
        /\ rows[k].group_name = _format_actor_group_name(Actuator(key[1], key[2]).description)}

\* C1: the start state of every enumerated actuator is the target state of the
\* last action of the model routine's first sequence that references it, else
\* that of the last such action over all sequences of the common routine, else
\* HOME; the actuator has exactly one Start Conditions row and that row shows
\* the state with the AT prefix.
C1_StartState ==
    /\ pc # "build" =>
           \A key \in EnumeratedKeys :
               /\ key \in DOMAIN cylinder_state
               /\ cylinder_state[key].state[Len(cylinder_state[key].state)]
                      = ExpectedStartState(key)
    /\ pc \notin {"build", "start_conditions"} =>
           \A key \in EnumeratedKeys :
               /\ Cardinality(StartRowsOf(key)) = 1
               /\ \A k \in StartRowsOf(key) :
                      rows[k].status = "AT " \o ExpectedStartState(key)

\* the common pass wrote HOME, the model's first sequence wrote WORK, and the
\* row reads AT WORK
C1_Witness ==
    /\ pc = "saved"
    /\ \E key \in EnumeratedKeys :
           /\ References(common_data.sequences, key) # {}
           /\ LastReferenceState(common_data.sequences, key) = "HOME"
           /\ References(FirstSequenceOf(model_data), key) # {}
           /\ \E k \in StartRowsOf(key) : rows[k].status = "AT WORK"

\* ------------------------------------------------------------------- C2
\* The export run on every short list of transitions (ascending distinct
\* indices, with or without a descriptive name) against every short list of
\* model sequences (ascending distinct indices).
IndexSets(n) == {S \in SUBSET (0..MaxSeqIndex) : Cardinality(S) <= n}

TimelineSequence(si) ==
    MkSequence(si,
        IF si % 2 = 1
        THEN <<MkStep(0, <<MkAction(0, <<"MM1", "Work", 1>>)>>),
               MkStep(1, <<MkAction(0, <<NoneStr, NoneStr, 0>>),
                           MkAction(1, <<"MM2", "Home", 2>>)>>)>>
        ELSE <<MkStep(0, <<MkAction(0, <<"MM1", "Work", 1>>)>>)>>)

TimelineModels ==
    {MkData(ModelRoutineName,
            [k \in 1..Cardinality(S) |-> TimelineSequence(SortedSeq(S)[k])]) :
        S \in IndexSets(MaxSequences)}

TimelineTransitions ==
    UNION {{[k \in 1..Cardinality(S) |->
                MkTransition(SortedSeq(S)[k], names[SortedSeq(S)[k]],
                             permissions[SortedSeq(S)[k]])] :
               names \in [S -> TransitionNames],
               permissions \in [S -> SamplePermissions]} :
           S \in IndexSets(MaxTransitions)}

InitTimeline ==
    /\ common_data = MkData(CommonRoutineName,
                            MkSequences(<<<<"MM1", "Home", 1>>>>, "one_step"))
    /\ model_data \in TimelineModels
    /\ all_actuators_data = [mm \in MMs |-> ActuatorsOf(mm, MaxActuators)]
    /\ valve_mappings_data =
           [mm \in {"MM1"} |-> ValveInfo("_010_UA1_KJ1_Hw", <<"1", "A">>, <<"N/A">>)]
    /\ digital_inputs_data = SampleInputs
    /\ transitions_data \in TimelineTransitions
    /\ DetailStart
    /\ IdleExcept("detail")

SpecTimeline == InitTimeline /\ [][Next]_vars

\* the correlated sequence of the p-th transition, as the claim words it
\* (0: none)
ExpectedCorrelation(p) ==
    LET sequences == model_data.sequences
        i == transitions_data[p].transition_index
        at(index) == {k \in DOMAIN sequences : sequences[k].sequence_index = index}
    IN  IF at(i) # {} THEN CHOOSE k \in at(i) : TRUE
        ELSE IF at(i + 1) # {} THEN CHOOSE k \in at(i + 1) : TRUE
        ELSE IF p - 1 < Len(sequences) THEN p
        ELSE 0

StateMarkerTypes == {"Fixed State", "Transition State"}

\* the rows written for the p-th processed transition: a state-marker row,
\* its wait rows, then the name row and step rows of the correlated sequence
\* if there is one, and nothing else
SegmentAsClaimed(p) ==
    LET m == matched[p]
        expected == ExpectedCorrelation(p)
        after_waits == m.first_row + m.wait_rows
    IN  /\ m.position = expected
        /\ rows[m.first_row].row_type \in StateMarkerTypes
        /\ rows[m.first_row].actor_type = NoneStr
        /\ \A k \in (m.first_row + 1)..after_waits :
               rows[k].row_type = "Wait Conditions"
        /\ IF expected = 0 THEN m.last_row = after_waits
           ELSE /\ m.last_row > after_waits
                /\ rows[after_waits + 1].row_type = "Transition State"
                /\ rows[after_waits + 1].custom_desc
                       = model_data.sequences[expected].sequence_name
                /\ \A k \in (after_waits + 2)..m.last_row :
                       rows[k].actor_type = "CylinderUnits"

C2_Segments == \A p \in DOMAIN matched : SegmentAsClaimed(p)

\* C2: each transition is correlated to the sequence of its index, else of its
\* index + 1, else at its own position, else to none; with none, no name row
\* and no step rows are written but the state-marker and wait rows are, and
\* processing continues with the next transition (the loop never raises and
\* every transition has its rows once the loop is over).
C2_Correlation ==
    /\ C2_Segments
    /\ pc # "TypeError"
    /\ pc \in {"save", "saved", "Exception"} =>
           Len(matched) = Len(transitions_data)

\* ------------------------------------------------------------------- C3
\* One call of _expand_permission_to_wait_conditions on every short
\* permission value and comment, without digital inputs and with two lists of
\* them.
InputChoices ==
    { <<>>, SampleInputs,
      <<MkInput(<<"BG3">>, "PartLeft"), MkInput(<<"BG2">>, "Part10"),
        MkInput(<<"BG1">>, "Part2"), MkInput(<<"SQ1">>, "Part2")>> }

InitWait ==
    /\ wait_permission \in
           {MkPermission(0, value, comment) :
               value \in SeqsUpTo(ValueLexemes, MaxValueLexemes),
               comment \in SeqsUpTo(CommentLexemes, MaxCommentLexemes)}
    /\ wait_inputs \in InputChoices
    /\ wait_conditions = <<>>
    /\ wait_pc = "call"
    /\ IdleExcept("wait")

Expand ==
    /\ wait_pc = "call"
    /\ wait_conditions' =
           _expand_permission_to_wait_conditions(wait_permission, wait_inputs)
    /\ wait_pc' = "returned"
    /\ UNCHANGED <<wait_permission, wait_inputs>>
    /\ UNCHANGED otherThanWait

NextWait == Expand

SpecWait == InitWait /\ [][NextWait]_vars

\* the rules whose condition the permission satisfies
SatisfiedRules(permission) ==
    {r \in 1..6 : RuleCondition(r, permission.permission_value, permission.comment)}

EarliestRule(permission) ==
    CHOOSE r \in SatisfiedRules(permission) :
        \A o \in SatisfiedRules(permission) : r <= o

\* the tag names of the sensors rule r expands to, in order
ExpectedSensors(r, permission, digital_inputs) ==
    LET sensors == PartSensors(digital_inputs)
        value == permission.permission_value
        part == "Part" \o PartNumberOf(FirstLexeme(value, SpecificPartLexemes))
        chosen == IF r = 1
                  THEN StableSortBy(sensors, LAMBDA d : _sort_part_name(d.part_assignment))
                  ELSE SelectSeq(sensors, LAMBDA d : d.part_assignment = part)
    IN  [k \in 1..Len(chosen) |-> _format_actor_group_name(chosen[k].tag_name)]

IsGeneric(wait_condition, permission) ==
    /\ wait_condition.actor_type = NoneStr
    /\ wait_condition.custom_desc = JoinWith(permission.permission_value, " ")
    /\ wait_condition.group_desc = JoinWith(permission.comment, " ")

\* what the expansion by rule r alone looks like
ExpandedBy(r, conditions, permission, digital_inputs) ==
    CASE r \in {1, 2} ->
            /\ \A k \in DOMAIN conditions : conditions[k].actor_type = "SensorUnits"
            /\ [k \in DOMAIN conditions |-> conditions[k].group_name]
                   = ExpectedSensors(r, permission, digital_inputs)
      [] r = 3 -> Len(conditions) = 1 /\ conditions[1].actor_type = "Timers"
      [] r = 4 -> Len(conditions) = 1 /\ conditions[1].actor_type = "Operators"
      [] r = 5 -> Len(conditions) = 1 /\ conditions[1].actor_type = "Robots"
      [] OTHER ->
            /\ Len(conditions) = 1
            /\ \/ conditions[1].actor_type = "CylinderUnits"
               \/ IsGeneric(conditions[1], permission)

\* C3: a permission is expanded by the earliest rule it satisfies in the order
\* all-parts, specific-part, timer/delay, operator/manual, robot-status,
\* cylinder-position, and by no other; a permission that satisfies none yields
\* exactly one generic row that carries the permission value verbatim.
C3_Precedence ==
    wait_pc = "returned" =>
        IF SatisfiedRules(wait_permission) = {}
        THEN /\ Len(wait_conditions) = 1
             /\ IsGeneric(wait_conditions[1], wait_permission)
        ELSE ExpandedBy(EarliestRule(wait_permission), wait_conditions,
                        wait_permission, wait_inputs)

\* a permission that satisfies the timer rule and the cylinder rule, and whose
\* comment satisfies the operator rule, is expanded to the one timer row
C3_Witness ==
    /\ wait_pc = "returned"
    /\ {3, 4, 6} \subseteq SatisfiedRules(wait_permission)
    /\ Len(wait_conditions) = 1
    /\ wait_conditions[1].actor_type = "Timers"

\* a permission that satisfies no rule yields the generic row
C3_WitnessGeneric ==
    /\ wait_pc = "returned"
    /\ SatisfiedRules(wait_permission) = {}
    /\ Len(wait_permission.permission_value) > 0
    /\ wait_conditions = <<GenericWaitCondition(wait_permission.permission_value,
                                                wait_permission.comment)>>

\* -------------------------------------------------------- array validator
\* A Tag element: its Name, its Dimensions attribute as a list of characters
\* ('' when the attribute is absent) and the number of its child elements.
MkTag(name, dimensions, children) ==
    [Name |-> name, Dimensions |-> dimensions, children |-> children]

Digits == {"1", "2"}

DigitOf(c) == IF c = "1" THEN 1 ELSE 2

RECURSIVE DigitsValue(_)
DigitsValue(chars) ==
    IF Len(chars) = 0 THEN 0
    ELSE 10 * DigitsValue(SubSeq(chars, 1, Len(chars) - 1)) + DigitOf(chars[Len(chars)])

RECURSIVE Strip(_)
Strip(chars) ==
    IF Len(chars) > 0 /\ Head(chars) = " " THEN Strip(Tail(chars))
    ELSE IF Len(chars) > 0 /\ chars[Len(chars)] = " "
    THEN Strip(SubSeq(chars, 1, Len(chars) - 1))
    ELSE chars

\* int(dimensions): the value, or NoneInt for ValueError
ParseInt(chars) ==
    LET t == Strip(chars)
    IN  IF Len(t) > 0 /\ \A i \in DOMAIN t : t[i] \in Digits THEN DigitsValue(t)
        ELSE NoneInt

\* re.search(r'\d+', dimensions): the first maximal run of digits, or <<>>
FirstDigitRun(chars) ==
    IF \E i \in DOMAIN chars : chars[i] \in Digits
    THEN LET first == CHOOSE i \in DOMAIN chars :
                          chars[i] \in Digits /\ \A j \in 1..(i - 1) : chars[j] \notin Digits
             last == CHOOSE i \in first..Len(chars) :
                         /\ \A j \in first..i : chars[j] \in Digits
                         /\ (i = Len(chars) \/ chars[i + 1] \notin Digits)
         IN  SubSeq(chars, first, last)
    ELSE <<>>

\* XMLNavigator.find_tag_by_name: the position of the first tag of that name
\* (0: None)
find_tag_by_name(tags, tag_name) ==
    IF \E k \in DOMAIN tags : tags[k].Name = tag_name
    THEN CHOOSE k \in DOMAIN tags :
            tags[k].Name = tag_name /\ \A j \in 1..(k - 1) : tags[j].Name # tag_name
    ELSE 0

\* XMLNavigator.get_tag_dimension.  'if tag:' tests the truth value of an
\* Element, which is false for an element without children.
get_tag_dimension(tags, tag_name) ==
    LET at == find_tag_by_name(tags, tag_name)
    IN  IF at = 0 THEN NoneInt
        ELSE IF tags[at].children = 0 THEN NoneInt
        ELSE IF Len(tags[at].Dimensions) = 0 THEN NoneInt
        ELSE IF ParseInt(tags[at].Dimensions) # NoneInt
        THEN ParseInt(tags[at].Dimensions)
        ELSE IF FirstDigitRun(tags[at].Dimensions) # <<>>
        THEN DigitsValue(FirstDigitRun(tags[at].Dimensions))
        ELSE NoneInt

validate_actuators(tags, mm_number, actuators) ==
    LET array_name == mm_number \o "Cyls"
        dimension == get_tag_dimension(tags, array_name)
        found_indices == {actuators[k].index : k \in DOMAIN actuators}
        missing_indices == SortedSeq((0..(dimension - 1)) \ found_indices)
    IN  [is_valid |-> IF dimension = NoneInt THEN NoneStr
                      ELSE IF Len(missing_indices) > 0 THEN "False" ELSE "True",
         array_name |-> array_name,
         array_dimension |-> dimension,
         descriptions_found |-> Len(actuators),
         missing_indices |-> IF dimension = NoneInt THEN <<>> ELSE missing_indices]

Validate ==
    /\ val_pc = "call"
    /\ validation' = validate_actuators(val_tags, val_mm, val_actuators)
    /\ val_pc' = "returned"
    /\ UNCHANGED <<val_tags, val_mm, val_actuators>>
    /\ UNCHANGED otherThanValidate

DimChars == {"1", "2", " ", "x"}

ArrayTags ==
    {MkTag("MM4Cyls", dimensions, children) :
        dimensions \in SeqsUpTo(DimChars, MaxDimChars), children \in {0, 1}}

FoundActuators ==
    {[k \in 1..Cardinality(S) |-> Actuator("MM4", SortedSeq(S)[k])] :
        S \in SUBSET (0..MaxFoundIndex)}

\* One call of validate_actuators for MM4 on documents without and with the
\* tag MM4Cyls, after another tag or alone.
InitValidate ==
    /\ val_tags \in {before \o target :
                       before \in {<<>>, <<MkTag("MM5Cyls", <<"2">>, 1)>>},
                       target \in {<<>>} \cup {<<t>> : t \in ArrayTags}}
    /\ val_mm = "MM4"
    /\ val_actuators \in FoundActuators
    /\ validation = <<>>
    /\ val_pc = "call"
    /\ IdleExcept("validate")

NextValidate == Validate

SpecValidate == InitValidate /\ [][NextValidate]_vars

\* ------------------------------------------------------------------- C4
\* the dimension the document declares for the array tag: the number its
\* Dimensions attribute gives (NoneInt: no such tag, or no number in it)
DeclaredDimension(tags, array_name) ==
    LET named == {k \in DOMAIN tags : tags[k].Name = array_name}
        first == CHOOSE k \in named : \A j \in named : k <= j
    IN  IF named = {} THEN NoneInt
        ELSE IF ParseInt(tags[first].Dimensions) # NoneInt
        THEN ParseInt(tags[first].Dimensions)
        ELSE IF FirstDigitRun(tags[first].Dimensions) # <<>>
        THEN DigitsValue(FirstDigitRun(tags[first].Dimensions))
        ELSE NoneInt

ValidationAsClaimed(dimension) ==
    LET missing == (0..(dimension - 1)) \ {val_actuators[k].index : k \in DOMAIN val_actuators}
    IN  IF dimension = NoneInt THEN validation.is_valid = NoneStr
        ELSE /\ Range(validation.missing_indices) = missing
             /\ Len(validation.missing_indices) = Cardinality(missing)
             /\ (validation.is_valid = "True") <=> (missing = {})
             /\ validation.is_valid \in {"True", "False"}

\* C4: is_valid is None when the declared dimension of the tag <mm>Cyls cannot
\* be resolved; otherwise missing_indices is {0..dimension-1} minus the found
\* indices and is_valid is true exactly when that set is empty.
C4_Validation ==
    val_pc = "returned" =>
        ValidationAsClaimed(DeclaredDimension(val_tags, val_mm \o "Cyls"))

\* the same, for documents whose array tag has child elements
C4_WithChildren ==
    (val_pc = "returned" /\ \A k \in DOMAIN val_tags : val_tags[k].children > 0) =>
        ValidationAsClaimed(DeclaredDimension(val_tags, val_mm \o "Cyls"))

\* ------------------------------------------------------- the L5X document
\* A program: its Name, its routines and its tags, in document order.  A
\* routine: its Name (the list of its '_' separated parts), its ST lines and
\* the MOVE statements of its rungs.
MkProgram(name, routines, tags) ==
    [Name |-> name, routines |-> routines, tags |-> tags]

MkRoutine(name, lines, moves) ==
    [Name |-> name, lines |-> lines, moves |-> moves]

\* MOVE('<description>', <array>Cyls[<index>].Stg.Name)
MkMove(description, array, index) ==
    [description |-> description, array |-> array, index |-> index]

\* A line of a sequence routine: what PATTERN_SEQUENCE_REGION and
\* PATTERN_SEQUENCE_NAME match in it (<<>>: no match) and the matches of
\* PATTERN_ACTION_ASSIGNMENT, in order.
MkLine(region, hardcoded, assignments) ==
    [region |-> region, hardcoded |-> hardcoded, assignments |-> assignments]

NameMatch(index, name) == <<[index |-> index, name |-> name]>>

Assignment(seq_idx, step_idx, action_idx, action_name) ==
    [seq_idx |-> seq_idx, step_idx |-> step_idx, action_idx |-> action_idx,
     action_name |-> action_name]

\* ROUTINES_PATH, TAGS_PATH: every routine / tag of every program
AllRoutines(doc) == Flatten([k \in DOMAIN doc |-> doc[k].routines])
AllTags(doc) == Flatten([k \in DOMAIN doc |-> doc[k].tags])

\* XMLNavigator.find_program_by_name: the routines in the scope of the
\* program, or of the whole document when there is no such program
ScopedRoutines(doc, program) ==
    IF program # NoneStr /\ \E k \in DOMAIN doc : doc[k].Name = program
    THEN doc[CHOOSE k \in DOMAIN doc :
                doc[k].Name = program /\ \A j \in 1..(k - 1) : doc[j].Name # program].routines
    ELSE AllRoutines(doc)

\* the first routine of that name in the scope (<<>>: none)
FindRoutine(doc, routine_name, program) ==
    LET named == SelectSeq(ScopedRoutines(doc, program),
                           LAMBDA r : r.Name = routine_name)
    IN  IF Len(named) = 0 THEN <<>> ELSE <<named[1]>>

\* --------------------------------------------------------------- actuators
MMNames == {"MM4", "MM2"}

\* '_<mm>$|_<mm>_' on a routine name: a part after the first is the MM
MatchesMMRoutine(routine_name, mm_number) ==
    \E k \in 2..Len(routine_name) : routine_name[k] = mm_number

\* re.search(r'(MM\d+)', routine_name): the first MM identifier in the name
FirstMMIn(routine_name) ==
    IF \E k \in DOMAIN routine_name : routine_name[k] \in MMNames
    THEN routine_name[CHOOSE k \in DOMAIN routine_name :
            routine_name[k] \in MMNames
            /\ \A j \in 1..(k - 1) : routine_name[j] \notin MMNames]
    ELSE NoneStr

\* one record for each index: a later MOVE to an index already found is dropped
find_items_one_per_index(doc, routine_name, program) ==
    LET routine == FindRoutine(doc, routine_name, program)
        mm_number == FirstMMIn(routine_name)
    IN  IF routine = <<>> \/ mm_number = NoneStr THEN <<>>
        ELSE LET matches == SelectSeq(routine[1].moves, LAMBDA m : m.array = mm_number)
                 indices == SortedSeq({matches[k].index : k \in DOMAIN matches})
             IN  [i \in DOMAIN indices |->
                     LET k == CHOOSE k \in DOMAIN matches :
                                  /\ matches[k].index = indices[i]
                                  /\ \A j \in 1..(k - 1) : matches[j].index # indices[i]
                     IN  [index |-> matches[k].index,
                          description |-> matches[k].description,
                          mm_number |-> mm_number]]

\* ActuatorExtractor.find_items
find_items(doc, routine_name, program) ==
    LET routine == FindRoutine(doc, routine_name, program)
        mm_number == FirstMMIn(routine_name)
    IN  IF routine = <<>> \/ mm_number = NoneStr THEN <<>>
        ELSE LET matches == SelectSeq(routine[1].moves, LAMBDA m : m.array = mm_number)
             IN  StableSortBy([k \in DOMAIN matches |->
                                  [index |-> matches[k].index,
                                   description |-> matches[k].description,
                                   mm_number |-> mm_number]],
                              LAMBDA a : <<a.index>>)

\* ActuatorExtractor.find_actuators_for_mm: the first matching routine of the
\* scope
find_actuators_for_mm(doc, mm_number, program) ==
    LET matching_routines == SelectSeq(ScopedRoutines(doc, program),
                                 LAMBDA r : MatchesMMRoutine(r.Name, mm_number))
    IN  IF Len(matching_routines) = 0 THEN <<>>
        ELSE find_items(doc, matching_routines[1].Name, program)

\* ------------------------------------------ extract_sequences_with_actuators
\* An action name is a list of symbols, each a run of word characters:
\* "Action" stands for those six letters, the others for themselves.
NameSymbols == {"Action", "M", "4", "2", "W"}
NameDigits == {"4", "2"}

\* re.match(r'Action(MM\d+)(\w+)', action_name): <<mm_number, state>>, or <<>>
\* for None.  \d+ takes every digit that follows MM and gives the last one
\* back to \w+ when nothing else is left for it.
parse_action_name_no_backtrack(action_name) ==
    LET n == Len(action_name)
    IN  IF /\ n >= 4
           /\ action_name[1] = "Action" /\ action_name[2] = "M" /\ action_name[3] = "M"
           /\ action_name[4] \in NameDigits
        THEN LET last == CHOOSE i \in 4..n :
                             /\ \A j \in 4..i : action_name[j] \in NameDigits
                             /\ (i = n \/ action_name[i + 1] \notin NameDigits)
             IN  IF last < n
                 THEN <<"MM" \o JoinWith(SubSeq(action_name, 4, last), ""),
                        JoinWith(SubSeq(action_name, last + 1, n), "")>>
                 ELSE <<>>
        ELSE <<>>

parse_action_name(action_name) ==
    LET n == Len(action_name)
    IN  IF /\ n >= 4
           /\ action_name[1] = "Action" /\ action_name[2] = "M" /\ action_name[3] = "M"
           /\ action_name[4] \in NameDigits
        THEN LET last == CHOOSE i \in 4..n :
                             /\ \A j \in 4..i : action_name[j] \in NameDigits
                             /\ (i = n \/ action_name[i + 1] \notin NameDigits)
             IN  IF last < n
                 THEN <<"MM" \o JoinWith(SubSeq(action_name, 4, last), ""),
                        JoinWith(SubSeq(action_name, last + 1, n), "")>>
                 ELSE IF last > 4
                 THEN <<"MM" \o JoinWith(SubSeq(action_name, 4, n - 1), ""),
                        action_name[n]>>
                 ELSE <<>>
        ELSE <<>>

\* dict[key] = value
DictSet(dict, key, value) ==
    [k \in DOMAIN dict \cup {key} |-> IF k = key THEN value ELSE dict[k]]

\* a region marker stores its name only for an index that has none yet
NamesAfterLine_first_wins(names, line) ==
    IF line.region # <<>>
    THEN IF line.region[1].index \notin DOMAIN names
         THEN DictSet(names, line.region[1].index, line.region[1].name)
         ELSE names
    ELSE IF line.hardcoded # <<>> /\ line.hardcoded[1].index \notin DOMAIN names
    THEN DictSet(names, line.hardcoded[1].index, line.hardcoded[1].name)
    ELSE names

\* lines 411-433: a region marker always stores its name; a hardcoded name is
\* looked for only on a line without a region marker and stored only for an
\* index that has no name yet
NamesAfterLine(names, line) ==
    IF line.region # <<>>
    THEN DictSet(names, line.region[1].index, line.region[1].name)
    ELSE IF line.hardcoded # <<>> /\ line.hardcoded[1].index \notin DOMAIN names
    THEN DictSet(names, line.hardcoded[1].index, line.hardcoded[1].name)
    ELSE names

\* lines 436-490: the data of one matched assignment.  The actuators and the
\* validation are looked up from the root of the document, without a program.
ActionData(assignment, doc) ==
    LET action_info == parse_action_name(assignment.action_name)
    IN  IF action_info # <<>>
        THEN LET actuators == find_actuators_for_mm(doc, action_info[1], NoneStr)
             IN  [action_name |-> assignment.action_name,
                  mm_number |-> action_info[1],
                  state |-> action_info[2],
                  actuators |-> actuators,
                  validation |-> <<validate_actuators(AllTags(doc), action_info[1],
                                                      actuators)>>]
        ELSE [action_name |-> assignment.action_name,
              mm_number |-> NoneStr,
              state |-> NoneStr,
              actuators |-> <<>>,
              validation |-> <<>>]

\* an assignment is stored only for a position that has no action yet
RECURSIVE SequencesAfter_first_wins(_, _, _)
SequencesAfter_first_wins(dict, assignments, doc) ==
    IF Len(assignments) = 0 THEN dict
    ELSE LET key == <<Head(assignments).seq_idx, Head(assignments).step_idx,
                      Head(assignments).action_idx>>
         IN  SequencesAfter_first_wins(
                 IF key \in DOMAIN dict THEN dict
                 ELSE DictSet(dict, key, ActionData(Head(assignments), doc)),
                 Tail(assignments), doc)

RECURSIVE SequencesAfter(_, _, _)
SequencesAfter(dict, assignments, doc) ==
    IF Len(assignments) = 0 THEN dict
    ELSE SequencesAfter(
             DictSet(dict,
                     <<Head(assignments).seq_idx, Head(assignments).step_idx,
                       Head(assignments).action_idx>>,
                     ActionData(Head(assignments), doc)),
             Tail(assignments), doc)

\* the validation key is set when the validation is not None
FormatAction(dict, key) ==
    [action_index |-> key[3],
     action_name |-> dict[key].action_name,
     mm_number |-> dict[key].mm_number,
     state |-> dict[key].state,
     actuator_count |-> Len(dict[key].actuators),
     actuators |-> dict[key].actuators,
     validation |-> dict[key].validation]

FormatStep(dict, q, t) ==
    LET action_keys == SortedSeq({k[3] : k \in {x \in DOMAIN dict : x[1] = q /\ x[2] = t}})
    IN  [step_index |-> t,
         actions |-> [a \in 1..Len(action_keys) |->
                         FormatAction(dict, <<q, t, action_keys[a]>>)]]

FormatSequence(dict, names, q) ==
    LET step_keys == SortedSeq({k[2] : k \in {x \in DOMAIN dict : x[1] = q}})
    IN  [sequence_index |-> q,
         sequence_name |-> IF q \in DOMAIN names THEN names[q] ELSE NoneStr,
         steps |-> [j \in 1..Len(step_keys) |-> FormatStep(dict, q, step_keys[j])]]

\* the sequences in descending order of their index
format_sequences_descending(dict, names) ==
    LET seq_keys == SortedSeq({k[1] : k \in DOMAIN dict})
    IN  [i \in 1..Len(seq_keys) |->
            FormatSequence(dict, names, seq_keys[Len(seq_keys) + 1 - i])]

format_sequences(dict, names) ==
    LET seq_keys == SortedSeq({k[1] : k \in DOMAIN dict})
    IN  [i \in 1..Len(seq_keys) |-> FormatSequence(dict, names, seq_keys[i])]

\* lines 391-406: the routine is looked up in the program when a program name
\* is given; without the routine the result is the empty list
FindSequenceRoutine ==
    /\ seq_pc = "call"
    /\ LET routine == FindRoutine(document, ModelRoutineName, program_name)
       IN  IF routine = <<>>
           THEN /\ seq_pc' = "returned"
                /\ routine_lines' = routine_lines
           ELSE /\ seq_pc' = "lines"
                /\ routine_lines' = routine[1].lines
    /\ UNCHANGED <<document, program_name, line_idx, sequences_dict,
                   sequence_names, formatted, previous_runs>>
    /\ UNCHANGED otherThanSeq

\* lines 408-490: one iteration of the loop over the lines
ProcessLine ==
    /\ seq_pc = "lines"
    /\ line_idx < Len(routine_lines)
    /\ LET line == routine_lines[line_idx + 1]
       IN  /\ sequence_names' = NamesAfterLine(sequence_names, line)
           /\ sequences_dict' = SequencesAfter(sequences_dict, line.assignments, document)
    /\ line_idx' = line_idx + 1
    /\ UNCHANGED <<document, program_name, routine_lines, formatted, seq_pc,
                   previous_runs>>
    /\ UNCHANGED otherThanSeq

\* line 493
FormatSequences ==
    /\ seq_pc = "lines"
    /\ line_idx = Len(routine_lines)
    /\ formatted' = format_sequences(sequences_dict, sequence_names)
    /\ seq_pc' = "returned"
    /\ UNCHANGED <<document, program_name, routine_lines, line_idx,
                   sequences_dict, sequence_names, previous_runs>>
    /\ UNCHANGED otherThanSeq

NextSeq ==
    \/ FindSequenceRoutine
    \/ ProcessLine
    \/ FormatSequences

\* ------------------------------------------- the documents of the extraction
SeqRoutine(lines) == MkRoutine(ModelRoutineName, lines, <<>>)

MMRoutine(mm_number, moves) == MkRoutine(<<"Cm010507", mm_number>>, <<>>, moves)

AssignmentLine(seq_idx, step_idx, action_idx, action_name) ==
    MkLine(<<>>, <<>>, <<Assignment(seq_idx, step_idx, action_idx, action_name)>>)

ActionMM4W == <<"Action", "M", "M", "4", "W">>

\* a document with one program, its sequence routine and its MM4 routine
SingleProgram(lines) ==
    <<MkProgram("S010_010UA1_Fixture",
                <<SeqRoutine(lines),
                  MMRoutine("MM4", <<MkMove(<<"MM4", "MMB2">>, "MM4", 1),
                                     MkMove(<<"MM4", "MMB1">>, "MM4", 0)>>)>>,
                <<MkTag("MM4Cyls", <<"2">>, 1)>>)>>

SeqStart ==
    /\ routine_lines = <<>>
    /\ line_idx = 0
    /\ sequences_dict = <<>>
    /\ sequence_names = <<>>
    /\ formatted = <<>>
    /\ seq_pc = "call"
    /\ previous_runs = <<>>

\* one assignment of every short action name
InitParse ==
    /\ document \in {SingleProgram(<<AssignmentLine(0, 0, 0, action_name)>>) :
                        action_name \in SeqsUpTo(NameSymbols, MaxNameSymbols) \ {<<>>}}
    /\ program_name = NoneStr
    /\ SeqStart
    /\ IdleExcept("seq")

NameLines ==
    { MkLine(NameMatch(0, "Clamp"), <<>>, <<>>),
      MkLine(<<>>, NameMatch(0, "Seq0"), <<>>),
      AssignmentLine(0, 0, 0, ActionMM4W),
      MkLine(NameMatch(1, "Open"), NameMatch(0, "Seq0"), <<>>),
      MkLine(<<>>, NameMatch(1, "Seq1"), <<Assignment(1, 0, 0, <<"W">>)>>),
      MkLine(NameMatch(0, "Close"), <<>>, <<>>) }

\* every short routine of region markers, hardcoded names and assignments
InitNames ==
    /\ document \in {SingleProgram(lines) : lines \in SeqsUpTo(NameLines, MaxLines)}
    /\ program_name = NoneStr
    /\ SeqStart
    /\ IdleExcept("seq")

\* a fixture program: its sequence routine, its MM4 routine with an actuator
\* for each index of found, and its array tag ('' : no tag)
Fixture(name, actuator_prefix, found, dimension) ==
    MkProgram(name,
              <<SeqRoutine(<<AssignmentLine(0, 0, 0, ActionMM4W)>>),
                MMRoutine("MM4",
                    [k \in 1..Cardinality(found) |->
                        MkMove(<<actuator_prefix, "MMB" \o ToString(SortedSeq(found)[k] + 1)>>,
                               "MM4", SortedSeq(found)[k])])>>,
              IF dimension = "" THEN <<>>
              ELSE <<MkTag("MM4Cyls", <<dimension>>, 1)>>)

Fixtures(name, actuator_prefix) ==
    {Fixture(name, actuator_prefix, found, dimension) :
        found \in SUBSET (0..MaxFoundIndex), dimension \in {"", "1", "2"}}

\* the extraction scoped to either fixture of a document with two fixtures
InitScope ==
    /\ document \in {<<f1, f2>> : f1 \in Fixtures("S010_010UA1_Fixture", "F1MM4"),
                                  f2 \in Fixtures("S020_020UA1_Fixture", "F2MM4")}
    /\ program_name \in {"S010_010UA1_Fixture", "S020_020UA1_Fixture"}
    /\ SeqStart
    /\ IdleExcept("seq")

InitSeq == InitParse \/ InitNames \/ InitScope

SpecSeq == InitSeq /\ [][NextSeq]_vars

\* ------------------------------------------------------------------- C5
FormattedActions ==
    UNION {UNION {{formatted[q].steps[t].actions[a] :
                      a \in DOMAIN formatted[q].steps[t].actions} :
                  t \in DOMAIN formatted[q].steps} : q \in DOMAIN formatted}

\* Action<MM><state-word>: "Action", "MM" and one or more digits, then one or
\* more word characters
MatchesGrammar(action_name) ==
    \E i \in 4..(Len(action_name) - 1) :
        /\ action_name[1] = "Action" /\ action_name[2] = "M" /\ action_name[3] = "M"
        /\ \A j \in 4..i : action_name[j] \in NameDigits

MMForms ==
    {"MM" \o JoinWith(d, "") :
        d \in UNION {[1..k -> NameDigits] : k \in 1..MaxNameSymbols}}

AllAssignments ==
    UNION {{routine_lines[k].assignments[j] : j \in DOMAIN routine_lines[k].assignments} :
           k \in DOMAIN routine_lines}

\* C5: an action whose name matches Action<MM><state-word> has a non-null
\* mm_number of the form MM<digits> and a non-null state; an action with any
\* other name has both null, an empty actuator list and no validation; every
\* assignment has its action in the hierarchy.
C5_ActionNames ==
    seq_pc = "returned" =>
        /\ \A action \in FormattedActions :
               IF MatchesGrammar(action.action_name)
               THEN /\ action.mm_number # NoneStr
                    /\ action.state # NoneStr
                    /\ action.state # ""
                    /\ action.mm_number \in MMForms
               ELSE /\ action.mm_number = NoneStr
                    /\ action.state = NoneStr
                    /\ action.actuators = <<>>
                    /\ action.validation = <<>>
        /\ \A assignment \in AllAssignments :
               \E q \in DOMAIN formatted :
                   /\ formatted[q].sequence_index = assignment.seq_idx
                   /\ \E t \in DOMAIN formatted[q].steps :
                          /\ formatted[q].steps[t].step_index = assignment.step_idx
                          /\ \E a \in DOMAIN formatted[q].steps[t].actions :
                                 formatted[q].steps[t].actions[a].action_index
                                     = assignment.action_idx

\* a routine with a typed and an untyped action
C5_Witness ==
    /\ seq_pc = "returned"
    /\ \E action \in FormattedActions :
           /\ action.action_name = ActionMM4W
           /\ action.mm_number = "MM4" /\ action.state = "W"
           /\ Len(action.actuators) = 2
    /\ \E action \in FormattedActions :
           /\ action.action_name = <<"W">>
           /\ action.mm_number = NoneStr /\ action.validation = <<>>

\* ------------------------------------------------------------------- C6
RegionLines(q) ==
    {k \in DOMAIN routine_lines :
        routine_lines[k].region # <<>> /\ routine_lines[k].region[1].index = q}

HardcodedLines(q) ==
    {k \in DOMAIN routine_lines :
        routine_lines[k].hardcoded # <<>> /\ routine_lines[k].hardcoded[1].index = q}

LastOf(S) == CHOOSE k \in S : \A j \in S : j <= k

\* C6: a sequence whose index has both a region marker and a hardcoded name in
\* the routine is named by the region marker (the last one of that index),
\* whichever of the two lines comes first.
C6_RegionWins ==
    seq_pc = "returned" =>
        \A q \in DOMAIN formatted :
            LET index == formatted[q].sequence_index
            IN  (RegionLines(index) # {} /\ HardcodedLines(index) # {}) =>
                    formatted[q].sequence_name
                        = routine_lines[LastOf(RegionLines(index))].region[1].name

\* the hardcoded name comes first in the routine and the region marker names
\* the sequence
C6_Witness ==
    /\ seq_pc = "returned"
    /\ \E q \in DOMAIN formatted :
           /\ formatted[q].sequence_index = 0
           /\ formatted[q].sequence_name = "Clamp"
           /\ \E h \in HardcodedLines(0) : \E r \in RegionLines(0) : h < r

\* ------------------------------------------------------------------- C8
OwnProgram ==
    document[CHOOSE k \in DOMAIN document : document[k].Name = program_name]

\* C8: in a document with more than one fixture program, the actuators and the
\* validation of an action of the fixture under extraction are those of the
\* fixture's own MM routine and array tag.
C8_OwnFixture ==
    (seq_pc = "returned" /\ Len(document) > 1) =>
        \A action \in FormattedActions :
            action.mm_number # NoneStr =>
                /\ action.actuators
                       = find_actuators_for_mm(<<OwnProgram>>, action.mm_number, NoneStr)
                /\ action.validation
                       = <<validate_actuators(OwnProgram.tags, action.mm_number,
                                              action.actuators)>>

\* ================================================ ExtractionPipeline.run
MaxFixtures == 2
MaxEmRoutines == 2

\* str.lstrip('_') on a name spelt as symbols
RECURSIVE LStripUnderscore(_)
LStripUnderscore(name) ==
    IF Len(name) > 0 /\ Head(name) = "_" THEN LStripUnderscore(Tail(name))
    ELSE name

\* The parameters the extractors declare, self left out.
extract_all_digital_inputs_parameters == {"root"}
extract_all_actuator_groups_parameters == {"root"}

\* A call binds its keyword arguments to parameters of the same name; Python
\* raises TypeError for a keyword argument the callee does not declare.
Binds(parameters, keywords) == keywords \subseteq parameters

\* The exception a step of process_sequence_routine raises, NoneStr for none.
extract_digital_inputs ==
    IF Binds(extract_all_digital_inputs_parameters, {"program_name"})
    THEN NoneStr ELSE "TypeError"

extract_actuator_groups ==
    IF Binds(extract_all_actuator_groups_parameters, {"program_name"})
    THEN NoneStr ELSE "TypeError"

\* ExcelExporter.export as process_sequence_routine sees it: any exception of
\* the export is raised again as RuntimeError
excel_export(outcome) == IF outcome = "ok" THEN NoneStr ELSE "RuntimeError"

\* process_sequence_routine: the exception it raises (NoneStr for none) and
\* the record it returns.  The counts of the record are those of the
\* extractions and are left out.
process_sequence_routine(routine_name, fixture_program_name, fixture_output_folder, export_outcome) ==
    LET fixture_name == LStripUnderscore(fixture_program_name)
        excel_path == <<fixture_output_folder, fixture_name, routine_name>>
        raised == IF extract_digital_inputs # NoneStr THEN extract_digital_inputs
                  ELSE IF extract_actuator_groups # NoneStr THEN extract_actuator_groups
                  ELSE excel_export(export_outcome)
    IN  [exception |-> raised,
         record |-> [routine_name |-> routine_name,
                     program_name |-> fixture_program_name,
                     excel_file |-> excel_path]]

multi_fixture_mode == Len(fixture_programs) > 1

FixtureOutputFolder(fixture_info) ==
    IF multi_fixture_mode THEN <<"output", fixture_info.program_name>>
    ELSE <<"output">>

\* run, up to the fixtures loop
FindFixturePrograms ==
    /\ run_pc = "call"
    /\ IF fixture_programs = <<>>
       THEN /\ run_pc' = "returned"
            /\ fixture_idx' = fixture_idx
       ELSE /\ run_pc' = "fixture"
            /\ fixture_idx' = 1
    /\ UNCHANGED <<fixture_programs, routine_idx, all_routines_data>>
    /\ UNCHANGED otherThanRun

\* the head of one iteration of the fixtures loop: the output folder
EnterFixture ==
    /\ run_pc = "fixture"
    /\ IF fixture_idx > Len(fixture_programs)
       THEN /\ run_pc' = "returned"
            /\ UNCHANGED <<fixture_idx, routine_idx>>
       ELSE IF multi_fixture_mode /\ fixture_programs[fixture_idx].makedirs = "OSError"
       THEN /\ fixture_idx' = fixture_idx + 1
            /\ UNCHANGED <<run_pc, routine_idx>>
       ELSE /\ run_pc' = "routine"
            /\ routine_idx' = 1
            /\ fixture_idx' = fixture_idx
    /\ UNCHANGED <<fixture_programs, all_routines_data>>
    /\ UNCHANGED otherThanRun

\* one iteration of the routines loop
ProcessRoutine ==
    /\ run_pc = "routine"
    /\ LET fixture_info == fixture_programs[fixture_idx]
       IN  IF routine_idx > Len(fixture_info.em_routines)
           THEN /\ run_pc' = "fixture"
                /\ fixture_idx' = fixture_idx + 1
                /\ UNCHANGED <<routine_idx, all_routines_data>>
           ELSE LET routine_data ==
                        process_sequence_routine(
                            fixture_info.em_routines[routine_idx],
                            fixture_info.program_name,
                            FixtureOutputFolder(fixture_info),
                            fixture_info.export[routine_idx])
                IN  IF routine_data.exception # NoneStr
                    THEN /\ run_pc' = "raised"
                         /\ UNCHANGED <<fixture_idx, routine_idx, all_routines_data>>
                    ELSE /\ all_routines_data'
                                = Append(all_routines_data, routine_data.record)
                         /\ routine_idx' = routine_idx + 1
                         /\ UNCHANGED <<fixture_idx, run_pc>>
    /\ UNCHANGED fixture_programs
    /\ UNCHANGED otherThanRun

NextRun == FindFixturePrograms \/ EnterFixture \/ ProcessRoutine

\* ---- the documents and file systems run is started on
FixtureProgramNames == <<<<"_", "010UA1", "_", "Fixture">>, <<"S020", "Fixture">>,
                         <<"_", "030UA1", "_">>>>

EmRoutineNames == <<"EmStatesAndSequences_R2S", "EmStatesAndSequences_Common",
                    "EmStatesAndSequences_R1S">>

MkFixtureInfo(k, n, makedirs, export) ==
    [program_name |-> FixtureProgramNames[k],
     em_routines |-> SubSeq(EmRoutineNames, 1, n),
     makedirs |-> makedirs,
     export |-> export]

FixtureInfos(k) ==
    {MkFixtureInfo(k, n, makedirs, export) :
        n \in 1..MaxEmRoutines,
        makedirs \in {"ok", "OSError"},
        export \in [1..MaxEmRoutines -> {"ok", "PermissionError"}]}

InitRun ==
    /\ \E n \in 0..MaxFixtures :
           fixture_programs \in {f \in [1..n -> UNION {FixtureInfos(k) : k \in 1..n}] :
                                    \A k \in 1..n : f[k] \in FixtureInfos(k)}
    /\ fixture_idx = 0
    /\ routine_idx = 0
    /\ all_routines_data = <<>>
    /\ run_pc = "call"
    /\ IdleExcept("run")

SpecRun == InitRun /\ [][NextRun]_vars

\* ------------------------------------------------------------------- C7
RECURSIVE RecordsOfRoutines(_, _)
RecordsOfRoutines(fixture_info, from) ==
    IF from > Len(fixture_info.em_routines) THEN <<>>
    ELSE LET routine_data ==
                 process_sequence_routine(fixture_info.em_routines[from],
                                          fixture_info.program_name,
                                          FixtureOutputFolder(fixture_info),
                                          fixture_info.export[from])
         IN  (IF routine_data.exception = NoneStr
              THEN <<routine_data.record>> ELSE <<>>)
             \o RecordsOfRoutines(fixture_info, from + 1)

RECURSIVE RecordsOfFixtures(_)
RecordsOfFixtures(from) ==
    IF from > Len(fixture_programs) THEN <<>>
    ELSE (IF multi_fixture_mode /\ fixture_programs[from].makedirs = "OSError"
          THEN <<>>
          ELSE RecordsOfRoutines(fixture_programs[from], 1))
         \o RecordsOfFixtures(from + 1)

\* C7: a failure while processing one fixture or one of its routines aborts only
\* that fixture or routine: run does not raise, and it returns the records of
\* every fixture whose subfolder could be created and every routine whose
\* processing did not raise.
C7_FailureIsolated ==
    /\ run_pc # "raised"
    /\ run_pc = "returned" => all_routines_data = RecordsOfFixtures(1)

\* ============================================ ValveMappingExtractor.extract
MaxPairs == 2

\* `sub in text` on texts spelt as symbols
Contains(sub, text) ==
    \E i \in 0..(Len(text) - Len(sub)) : SubSeq(text, i + 1, i + Len(sub)) = sub

\* the end of the run of digits that starts at position i (i - 1: no digit)
DigitRunEnd(text, i) ==
    CHOOSE j \in (i - 1)..Len(text) :
        /\ \A q \in i..j : text[q] \in Digits
        /\ (j = Len(text) \/ text[j + 1] \notin Digits)

\* re.search(MM_ROUTINE_PATTERN, routine_name): group(1), or <<>> for no match
MMRoutineStarts(routine_name) ==
    {i \in DOMAIN routine_name :
        /\ routine_name[i] = "Cm"
        /\ LET e == DigitRunEnd(routine_name, i + 1)
           IN  /\ e >= i + 1
               /\ e + 2 <= Len(routine_name)
               /\ routine_name[e + 1] = "_"
               /\ routine_name[e + 2] = "MM"
               /\ DigitRunEnd(routine_name, e + 3) >= e + 3}

MM_ROUTINE_PATTERN(routine_name) ==
    IF MMRoutineStarts(routine_name) = {} THEN <<>>
    ELSE LET i == CHOOSE a \in MMRoutineStarts(routine_name) :
                      \A b \in MMRoutineStarts(routine_name) : a <= b
             e == DigitRunEnd(routine_name, i + 1)
         IN  SubSeq(routine_name, e + 3, DigitRunEnd(routine_name, e + 3))

\* a match of COMMAND_PATTERN: ,XIC(MM<mm>.<type>) OTE(<name>
MkCommand(mm, type, name) == [mm |-> mm, type |-> type, name |-> name]

MkRung(commands) == [commands |-> commands]

MkValveRoutine(name, rungs) == [Name |-> name, rungs |-> rungs]

MkValveProgram(name, routines) == [Name |-> name, routines |-> routines]

\* the first program of that name, as a list of at most one program
ProgramNamed(doc, name) ==
    IF \E k \in DOMAIN doc : doc[k].Name = name
    THEN <<doc[CHOOSE k \in DOMAIN doc :
                   doc[k].Name = name /\ \A j \in 1..(k - 1) : doc[j].Name # name]>>
    ELSE <<>>

MMKeyIndex(commands, mm_key) ==
    IF \E k \in DOMAIN commands : commands[k].mm_key = mm_key
    THEN CHOOSE k \in DOMAIN commands : commands[k].mm_key = mm_key
    ELSE 0

\* one match of COMMAND_PATTERN in a rung of the routine of mm_number
ApplyCommand(commands, mm_number, cmd_match) ==
    LET k == MMKeyIndex(commands, <<"MM">> \o mm_number)
    IN  IF cmd_match.mm # mm_number THEN commands
        ELSE IF cmd_match.type = "outWork"
        THEN [commands EXCEPT ![k].work_cmd = cmd_match.name]
        ELSE IF cmd_match.type = "outHome"
        THEN [commands EXCEPT ![k].home_cmd = cmd_match.name]
        ELSE commands

RECURSIVE ApplyCommands(_, _, _)
ApplyCommands(commands, mm_number, cmd_matches) ==
    IF Len(cmd_matches) = 0 THEN commands
    ELSE ApplyCommands(ApplyCommand(commands, mm_number, Head(cmd_matches)),
                       mm_number, Tail(cmd_matches))

RungMatches(rungs) == Flatten([k \in DOMAIN rungs |-> rungs[k].commands])

RECURSIVE CommandsOfRoutines(_, _)
CommandsOfRoutines(commands, routines) ==
    IF Len(routines) = 0 THEN commands
    ELSE LET routine == Head(routines)
             mm_number == MM_ROUTINE_PATTERN(routine.Name)
             mm_key == <<"MM">> \o mm_number
             initialized == IF MMKeyIndex(commands, mm_key) = 0
                            THEN Append(commands, [mm_key |-> mm_key,
                                                   work_cmd |-> NoneName,
                                                   home_cmd |-> NoneName])
                            ELSE commands
         IN  IF mm_number = <<>> THEN CommandsOfRoutines(commands, Tail(routines))
             ELSE CommandsOfRoutines(
                      ApplyCommands(initialized, mm_number, RungMatches(routine.rungs)),
                      Tail(routines))

_extract_mm_commands_from_fixture(doc, fixture_program_name) ==
    LET fixture_program == ProgramNamed(doc, fixture_program_name)
    IN  IF fixture_program = <<>> THEN <<>>
        ELSE CommandsOfRoutines(<<>>, fixture_program[1].routines)

\* str(valve_index)
IndexDigits == <<"1", "2", "3", "4">>

ValvePosition(valve_index, side) == <<IndexDigits[valve_index], side>>

NotAvailable == <<"N/A">>

SpareDO == <<"Spare.DO">>

WorkMatch(commands, work_param) ==
    commands.work_cmd # NoneName /\ Contains(commands.work_cmd, work_param)

HomeMatch(commands, home_param) ==
    commands.home_cmd # NoneName /\ Contains(commands.home_cmd, home_param)

\* the MM a valve pair is given to: the first, in insertion order, that
\* matches on either side (0: none)
MatchingMM(commands, work_param, home_param) ==
    LET hits == {k \in DOMAIN commands :
                    \/ WorkMatch(commands[k], work_param)
                    \/ HomeMatch(commands[k], home_param)}
    IN  IF hits = {} THEN 0 ELSE CHOOSE k \in hits : \A j \in hits : k <= j

\* the loop over the valve pairs, from the pair at 1-based position i
RECURSIVE ParsePairs(_, _, _, _)
ParsePairs(params, i, manifold_name, commands) ==
    IF i > Len(params) THEN <<>>
    ELSE LET work_param == params[i]
             home_param == IF i + 1 <= Len(params) THEN params[i + 1] ELSE <<>>
             valve_index == ((i - 6) \div 2) + 1
             k == MatchingMM(commands, work_param, home_param)
             mapping ==
                 [mm_number |-> commands[k].mm_key,
                  manifold |-> manifold_name,
                  valve_work |->
                      IF WorkMatch(commands[k], work_param)
                         /\ ~Contains(SpareDO, work_param)
                      THEN ValvePosition(valve_index, "A") ELSE NotAvailable,
                  valve_home |->
                      IF HomeMatch(commands[k], home_param)
                         /\ ~Contains(SpareDO, home_param)
                      THEN ValvePosition(valve_index, "B") ELSE NotAvailable]
         IN  IF work_param = <<>> \/ home_param = <<>> THEN <<>>
             ELSE IF Contains(SpareDO, work_param) /\ Contains(SpareDO, home_param)
             THEN ParsePairs(params, i + 2, manifold_name, commands)
             ELSE IF k = 0
             THEN ParsePairs(params, i + 2, manifold_name, commands)
             ELSE <<mapping>> \o ParsePairs(params, i + 2, manifold_name, commands)

\* params_split: the parameter string split at its commas
_parse_aoi_valvemanifold(params_split, fixture_program_name, commands) ==
    LET params == [k \in DOMAIN params_split |-> Strip(params_split[k])]
    IN  IF Len(params) < 7 THEN <<>>
        ELSE ParsePairs(params, 6, params[3], commands)

MkMapIoRung(text_before, calls) == [text_before |-> text_before, calls |-> calls]

RECURSIVE JoinParams(_)
JoinParams(params) ==
    IF Len(params) = 0 THEN <<>>
    ELSE IF Len(params) = 1 THEN params[1]
    ELSE params[1] \o <<",">> \o JoinParams(Tail(params))

\* the text of a rung of MapIo
RungText(rung) ==
    rung.text_before
        \o Flatten([k \in DOMAIN rung.calls |->
                       <<"AOI_ValveManifold_V8", "(">> \o JoinParams(rung.calls[k])
                           \o <<")">>])

MentionsProgram(text, fixture_program_name) ==
    \/ Contains(<<fixture_program_name>>, text)
    \/ Contains(<<"\\", fixture_program_name>>, text)

MappingsOfRung(rung, fixture_program_name, commands) ==
    IF RungText(rung) = <<>> THEN <<>>
    ELSE IF ~MentionsProgram(RungText(rung), fixture_program_name) THEN <<>>
    ELSE Flatten([k \in DOMAIN rung.calls |->
                     _parse_aoi_valvemanifold(rung.calls[k], fixture_program_name,
                                              commands)])

MapIoRungs(doc) ==
    LET mapio_program == ProgramNamed(doc, "MapIo")
    IN  IF mapio_program = <<>> THEN <<>>
        ELSE Flatten([k \in DOMAIN mapio_program[1].routines |->
                         mapio_program[1].routines[k].rungs])

_extract_valve_mappings_from_mapio(doc, fixture_program_name, commands) ==
    Flatten([k \in DOMAIN MapIoRungs(doc) |->
                MappingsOfRung(MapIoRungs(doc)[k], fixture_program_name, commands)])

RECURSIVE MappingsDict(_, _)
MappingsDict(dict, items) ==
    IF Len(items) = 0 THEN dict
    ELSE MappingsDict(DictSet(dict, Head(items).mm_number,
                              [manifold |-> Head(items).manifold,
                               valve_work |-> Head(items).valve_work,
                               valve_home |-> Head(items).valve_home]),
                      Tail(items))

valve_format_output(items) ==
    LET dict == MappingsDict(<<>>, items)
    IN  [valve_mappings |-> dict, mapping_count |-> Cardinality(DOMAIN dict)]

\* find_items, stage 1
FindMMCommands ==
    /\ valve_pc = "call"
    /\ IF valve_program_name = NoneStr \/ valve_program_name = ""
       THEN /\ mm_commands' = mm_commands
            /\ valve_pc' = "found"
       ELSE /\ mm_commands' = _extract_mm_commands_from_fixture(valve_document,
                                                                valve_program_name)
            /\ valve_pc' = IF mm_commands' = <<>> THEN "found" ELSE "mapio"
    /\ UNCHANGED <<valve_document, valve_program_name, valve_mappings, mappings_dict>>
    /\ UNCHANGED otherThanValve

\* find_items, stage 2
ExtractFromMapIo ==
    /\ valve_pc = "mapio"
    /\ valve_mappings' = _extract_valve_mappings_from_mapio(valve_document,
                                                            valve_program_name,
                                                            mm_commands)
    /\ valve_pc' = "found"
    /\ UNCHANGED <<valve_document, valve_program_name, mm_commands, mappings_dict>>
    /\ UNCHANGED otherThanValve

\* validate_items returns the items unchanged; format_output
FormatOutput ==
    /\ valve_pc = "found"
    /\ mappings_dict' = valve_format_output(valve_mappings)
    /\ valve_pc' = "returned"
    /\ UNCHANGED <<valve_document, valve_program_name, mm_commands, valve_mappings>>
    /\ UNCHANGED otherThanValve

NextValve == FindMMCommands \/ ExtractFromMapIo \/ FormatOutput

\* ---- the documents the extraction is run on
FixtureName == "Fix"

\* a parameter that names an output point of the fixture program
Wired(name) == <<"\\", FixtureName, ".">> \o name \o <<".", "Out">>

\* the names of the output points: those of MM1, and those of MM2, which either
\* extend the names of MM1 or share nothing with them
WorkNames(extending) ==
    <<<<"Y", "1">>, IF extending THEN <<"Y", "1", "1">> ELSE <<"Y", "2">>>>

HomeNames(extending) ==
    <<<<"Z", "1">>, IF extending THEN <<"Z", "1", "1">> ELSE <<"Z", "2">>>>

MMDigit == <<"1", "2">>

\* the MM routine of MM n; a rung of another MM's idiom is in it as well
MMValveRoutine(n, extending, work_wired, home_wired) ==
    MkValveRoutine(<<"Cm", MMDigit[n], "_", "MM", MMDigit[n]>>,
        <<MkRung((IF work_wired
                  THEN <<MkCommand(<<MMDigit[n]>>, "outWork", WorkNames(extending)[n])>>
                  ELSE <<>>)
                 \o <<MkCommand(<<MMDigit[3 - n]>>, "outWork", <<"X">>)>>),
          MkRung(IF home_wired
                 THEN <<MkCommand(<<MMDigit[n]>>, "outHome", HomeNames(extending)[n])>>
                 ELSE <<>>)>>)

FixturePrograms ==
    {MkValveProgram(FixtureName,
        <<MkValveRoutine(<<"Main">>, <<>>)>>
            \o (IF first = 1 THEN <<r1, r2>> ELSE <<r2, r1>>)) :
        first \in {1, 2},
        r1 \in UNION {{MMValveRoutine(1, extending, TRUE, home_wired) :
                          home_wired \in BOOLEAN} : extending \in BOOLEAN},
        r2 \in UNION {{MMValveRoutine(2, extending, work_wired, TRUE) :
                          work_wired \in BOOLEAN} : extending \in BOOLEAN}}

ManifoldHeader == <<<<"Ctl">>, <<"Cfg">>, <<" ", "_010_UA1_KJ1_Hw">>, <<"In">>, <<"Sts">>>>

WorkParams(extending) ==
    {Wired(WorkNames(extending)[1]), Wired(WorkNames(extending)[2]), SpareDO, <<>>}

HomeParams(extending) ==
    {Wired(HomeNames(extending)[1]), Wired(HomeNames(extending)[2]), SpareDO, <<>>}

ManifoldCalls(extending) ==
    UNION {{ManifoldHeader \o Flatten(pairs) :
               pairs \in [1..n -> {<<w, h>> : w \in WorkParams(extending),
                                              h \in HomeParams(extending)}]} :
           n \in 0..MaxPairs}

MapIoPrograms(extending) ==
    {MkValveProgram("MapIo",
        <<MkValveRoutine(<<"MapOutputs">>, <<MkMapIoRung(text_before, <<call>>)>>)>>) :
        text_before \in {<<>>, <<"XIC", "(", "\\", FixtureName, ".", "Run", ")">>},
        call \in ManifoldCalls(extending)}

ExtendingNames(fixture) ==
    \E k \in DOMAIN fixture.routines :
        \E r \in DOMAIN fixture.routines[k].rungs :
            \E c \in DOMAIN fixture.routines[k].rungs[r].commands :
                Len(fixture.routines[k].rungs[r].commands[c].name) = 3

InitValve ==
    /\ \E fixture \in FixturePrograms :
           \/ valve_document = <<fixture>>
           \/ \E mapio \in MapIoPrograms(ExtendingNames(fixture)) :
                  valve_document = <<fixture, mapio>>
    /\ valve_program_name = FixtureName
    /\ mm_commands = <<>>
    /\ valve_mappings = <<>>
    /\ mappings_dict = <<>>
    /\ valve_pc = "call"
    /\ IdleExcept("valve")

SpecValve == InitValve /\ [][NextValve]_vars

\* ------------------------------------------------------------------- C9
FirstDot(text) ==
    IF \E i \in DOMAIN text : text[i] = "."
    THEN CHOOSE i \in DOMAIN text : text[i] = "." /\ \A j \in 1..(i - 1) : text[j] # "."
    ELSE Len(text) + 1

\* the output point a parameter names: the tag of its path, the program scope
\* left out
OutputOf(param) ==
    LET t == Strip(param)
        path == IF Len(t) > 0 /\ t[1] = "\\" THEN SubSeq(t, FirstDot(t) + 1, Len(t))
                ELSE t
    IN  SubSeq(path, 1, FirstDot(path) - 1)

NamesOutput(param, cmd) == cmd # NoneName /\ OutputOf(param) = cmd

ValveCalls ==
    Flatten([k \in DOMAIN MapIoRungs(valve_document) |->
                MapIoRungs(valve_document)[k].calls])

PairCount(call) == IF Len(call) < 7 THEN 0 ELSE (Len(call) - 5) \div 2

WorkParam(call, k) == call[4 + 2 * k]

HomeParam(call, k) == call[5 + 2 * k]

ValveDone == valve_pc \in {"found", "returned"}

\* C9: the k-th valve pair of a manifold call whose work and home parameters
\* name the outputs wired to an MM's outWork and outHome yields a mapping of
\* that MM with valve_work = <k>A and valve_home = <k>B.
C9_ValvePosition ==
    ValveDone =>
        \A c \in DOMAIN ValveCalls : \A k \in 1..PairCount(ValveCalls[c]) :
            \A m \in DOMAIN mm_commands :
                (/\ NamesOutput(WorkParam(ValveCalls[c], k), mm_commands[m].work_cmd)
                 /\ NamesOutput(HomeParam(ValveCalls[c], k), mm_commands[m].home_cmd))
                => \E e \in DOMAIN valve_mappings :
                       /\ valve_mappings[e].mm_number = mm_commands[m].mm_key
                       /\ valve_mappings[e].valve_work = ValvePosition(k, "A")
                       /\ valve_mappings[e].valve_home = ValvePosition(k, "B")

\* a command name occurs only in the parameters that name it, and no
\* parameter is empty
PlainWiring ==
    /\ \A c \in DOMAIN ValveCalls : \A k \in 1..PairCount(ValveCalls[c]) :
           \A m \in DOMAIN mm_commands :
               /\ WorkMatch(mm_commands[m], WorkParam(ValveCalls[c], k))
                  => NamesOutput(WorkParam(ValveCalls[c], k), mm_commands[m].work_cmd)
               /\ HomeMatch(mm_commands[m], HomeParam(ValveCalls[c], k))
                  => NamesOutput(HomeParam(ValveCalls[c], k), mm_commands[m].home_cmd)
    /\ \A c \in DOMAIN ValveCalls : \A i \in DOMAIN ValveCalls[c] :
           Strip(ValveCalls[c][i]) # <<>>

\* the positions of C9 under plain wiring
ValvePositionPlain == PlainWiring => C9_ValvePosition

\* ------------------------------------------------------------------ C10
CommandsOf(mm_key) == mm_commands[MMKeyIndex(mm_commands, mm_key)]

SideAsClaimed(param, cmd, position) ==
    IF NamesOutput(param, cmd) /\ ~Contains(SpareDO, param) THEN position
    ELSE NotAvailable

HasPosition(mapping, k) ==
    \/ mapping.valve_work = ValvePosition(k, "A")
    \/ mapping.valve_home = ValvePosition(k, "B")

\* C10: every emitted mapping comes from a pair k of a call, its valve_work is
\* <k>A if and only if the work parameter names the work output of its MM and
\* is not the spare placeholder, likewise valve_home, and an absent side is
\* N/A; a pair with two spare sides yields no mapping; a pair that matches an
\* MM on exactly one side yields a mapping for that MM.
C10_Presence ==
    ValveDone =>
        /\ \A e \in DOMAIN valve_mappings :
               \E c \in DOMAIN ValveCalls : \E k \in 1..PairCount(ValveCalls[c]) :
                   LET cmds == CommandsOf(valve_mappings[e].mm_number)
                   IN  /\ valve_mappings[e].valve_work
                              = SideAsClaimed(WorkParam(ValveCalls[c], k),
                                              cmds.work_cmd, ValvePosition(k, "A"))
                       /\ valve_mappings[e].valve_home
                              = SideAsClaimed(HomeParam(ValveCalls[c], k),
                                              cmds.home_cmd, ValvePosition(k, "B"))
        /\ \A c \in DOMAIN ValveCalls : \A k \in 1..PairCount(ValveCalls[c]) :
               (/\ Contains(SpareDO, WorkParam(ValveCalls[c], k))
                /\ Contains(SpareDO, HomeParam(ValveCalls[c], k)))
               => \A e \in DOMAIN valve_mappings : ~HasPosition(valve_mappings[e], k)
        /\ \A c \in DOMAIN ValveCalls : \A k \in 1..PairCount(ValveCalls[c]) :
               \A m \in DOMAIN mm_commands :
                   (NamesOutput(WorkParam(ValveCalls[c], k), mm_commands[m].work_cmd)
                    # NamesOutput(HomeParam(ValveCalls[c], k), mm_commands[m].home_cmd))
                   => \E e \in DOMAIN valve_mappings :
                          /\ valve_mappings[e].mm_number = mm_commands[m].mm_key
                          /\ HasPosition(valve_mappings[e], k)

\* the presence rule of C10 under plain wiring, for the pairs of which no side
\* names an output of a second MM
PresencePlain ==
    (PlainWiring
     /\ \A c \in DOMAIN ValveCalls : \A k \in 1..PairCount(ValveCalls[c]) :
            \A m, n \in DOMAIN mm_commands :
                (/\ NamesOutput(WorkParam(ValveCalls[c], k), mm_commands[m].work_cmd)
                 /\ NamesOutput(HomeParam(ValveCalls[c], k), mm_commands[n].home_cmd))
                => m = n)
    => C10_Presence

\* ====================================== XMLNavigator.find_fixture_programs
MaxPrograms == 2
MaxRoutinesPerProgram == 2

\* re.search(r'_\d{3}UA\d_', program_name) on a name spelt as symbols
MatchesFixturePattern(name) ==
    \E i \in DOMAIN name :
        /\ i + 6 <= Len(name)
        /\ name[i] = "_"
        /\ \A d \in 1..3 : name[i + d] \in Digits
        /\ name[i + 4] = "UA"
        /\ name[i + 5] \in Digits
        /\ name[i + 6] = "_"

\* 'Fixture' in program_name
ContainsFixture(name) == Contains(<<"Fixture">>, name)

is_fixture_candidate(name) == MatchesFixturePattern(name) \/ ContainsFixture(name)

\* r.get('Name', '').startswith('EmStatesAndSequences')
StartsWithEm(routine_name) ==
    Len(routine_name) > 0 /\ Head(routine_name) = "EmStatesAndSequences"

em_routines_of(program) ==
    SelectSeq(program.routines, StartsWithEm)

\* a candidate is returned whether or not it owns a sequence routine
RECURSIVE find_fixture_programs_unvalidated(_)
find_fixture_programs_unvalidated(all_programs) ==
    IF Len(all_programs) = 0 THEN <<>>
    ELSE LET program == Head(all_programs)
         IN  (IF is_fixture_candidate(program.Name)
              THEN <<[program_element |-> program,
                      program_name |-> program.Name,
                      em_routines |-> em_routines_of(program)]>>
              ELSE <<>>)
             \o find_fixture_programs_unvalidated(Tail(all_programs))

RECURSIVE find_fixture_programs(_)
find_fixture_programs(all_programs) ==
    IF Len(all_programs) = 0 THEN <<>>
    ELSE LET program == Head(all_programs)
             em_routines == em_routines_of(program)
         IN  (IF is_fixture_candidate(program.Name) /\ em_routines # <<>>
              THEN <<[program_element |-> program,
                      program_name |-> program.Name,
                      em_routines |-> em_routines]>>
              ELSE <<>>)
             \o find_fixture_programs(Tail(all_programs))

FindFixtures ==
    /\ call_pc = "call"
    /\ call_result' = find_fixture_programs(call_args)
    /\ call_pc' = "returned"
    /\ UNCHANGED call_args
    /\ UNCHANGED otherThanCall

\* ---- the documents find_fixture_programs is called on
ProgramNameChoices ==
    { <<"_", "1", "2", "1", "UA", "1", "_", "Fixture">>,
      <<"_", "1", "2", "1", "UA", "1", "_", "Em">>,
      <<"S", "Fixture">>,
      <<"_", "1", "2", "UA", "1", "_">>,
      <<"_", "1", "2", "1", "UA", "1">>,
      <<"X", "_", "1", "2", "1", "2", "UA", "1", "_">>,
      <<"fixture">>,
      <<"MapIo">> }

RoutineNameChoices ==
    { <<"EmStatesAndSequences", "_R2S">>,
      <<"X", "EmStatesAndSequences">>,
      <<"Cm", "1", "_", "MM", "1">> }

NavPrograms ==
    {[Name |-> name, routines |-> routines] :
        name \in ProgramNameChoices,
        routines \in SeqsUpTo(RoutineNameChoices, MaxRoutinesPerProgram)}

InitFixtures ==
    /\ call_args \in SeqsUpTo(NavPrograms, MaxPrograms)
    /\ call_result = <<>>
    /\ call_pc = "call"
    /\ IdleExcept("call")

SpecFixtures == InitFixtures /\ [][FindFixtures]_vars

\* ------------------------------------------------------------------ C11
\* the numeric-cell convention: an underscore, three digits, UA, a digit, an
\* underscore
NumericCell(name) ==
    \E a, b \in 0..Len(name) :
        /\ b = a + 7
        /\ b <= Len(name)
        /\ LET part == SubSeq(name, a + 1, b)
           IN  /\ part[1] = "_" /\ part[7] = "_" /\ part[5] = "UA"
               /\ {part[2], part[3], part[4], part[6]} \subseteq Digits

SequenceRoutinesOf(program) ==
    {r \in DOMAIN program.routines : program.routines[r][1] = "EmStatesAndSequences"}

IsFixture(program) ==
    /\ NumericCell(program.Name) \/ "Fixture" \in Range(program.Name)
    /\ SequenceRoutinesOf(program) # {}

FixtureIndices == {k \in DOMAIN call_args : IsFixture(call_args[k])}

\* the k-th smallest element of a set of integers
KthOf(S, k) == CHOOSE x \in S : Cardinality({y \in S : y < x}) = k - 1

\* C11: find_fixture_programs returns, in document order, exactly the programs
\* whose name matches the numeric-cell convention or contains 'Fixture' and
\* that own a routine starting with the sequence-routine prefix; each carries
\* the non-empty list of exactly those routine names.
C11_FixturePrograms ==
    call_pc = "returned" =>
        /\ Len(call_result) = Cardinality(FixtureIndices)
        /\ \A j \in DOMAIN call_result :
               LET program == call_args[KthOf(FixtureIndices, j)]
                   own == SequenceRoutinesOf(program)
               IN  /\ call_result[j].program_name = program.Name
                   /\ call_result[j].em_routines # <<>>
                   /\ Len(call_result[j].em_routines) = Cardinality(own)
                   /\ \A q \in DOMAIN call_result[j].em_routines :
                          call_result[j].em_routines[q]
                              = program.routines[KthOf(own, q)]

\* a candidate without a sequence routine stands before a fixture, and only the
\* fixture is returned
C11_Witness ==
    /\ call_pc = "returned"
    /\ Len(call_args) = 2
    /\ is_fixture_candidate(call_args[1].Name)
    /\ em_routines_of(call_args[1]) = <<>>
    /\ Len(call_result) = 1
    /\ call_result[1].program_name = call_args[2].Name

\* ============================ PartSensorExtractor.extract_all_part_sensors
MaxPartRoutines == 2
MaxPartRungs == 2

\* re.search(PART_ROUTINE_PATTERN, routine_name): group(1), or <<>> for no match
PartRoutineStarts(routine_name) ==
    {i \in DOMAIN routine_name :
        /\ routine_name[i] = "Cm"
        /\ LET e == DigitRunEnd(routine_name, i + 1)
           IN  /\ e >= i + 1
               /\ e + 2 <= Len(routine_name)
               /\ routine_name[e + 1] = "_"
               /\ routine_name[e + 2] = "Part"
               /\ DigitRunEnd(routine_name, e + 3) >= e + 3}

PART_ROUTINE_PATTERN(routine_name) ==
    IF PartRoutineStarts(routine_name) = {} THEN <<>>
    ELSE LET i == CHOOSE a \in PartRoutineStarts(routine_name) :
                      \A b \in PartRoutineStarts(routine_name) : a <= b
             e == DigitRunEnd(routine_name, i + 1)
         IN  SubSeq(routine_name, e + 3, DigitRunEnd(routine_name, e + 3))

\* a match of SENSOR_ASSIGNMENT_PATTERN:
\* XIC(<sensor>.Out.Value) OTE(Part<part>.inpSensors.<slot>)
SensorAssignment(sensor, part, slot) == [sensor |-> sensor, part |-> part, slot |-> slot]

\* the sensors of the matches of a rung, the part number not verified
SensorsOfRung_unchecked(matches, part_name) ==
    [k \in DOMAIN matches |-> matches[k].sensor]

\* the sensors of the matches of a rung that name the part of the routine
SensorsOfRung(matches, part_name) ==
    LET kept == SelectSeq(matches, LAMBDA match : <<"Part">> \o match.part = part_name)
    IN  [k \in DOMAIN kept |-> kept[k].sensor]

_extract_sensors_from_part_routine(routine, part_name) ==
    Flatten([k \in DOMAIN routine.rungs |-> SensorsOfRung(routine.rungs[k], part_name)])

RECURSIVE MapSensors(_, _, _)
MapSensors(sensor_to_parts, sensors, part_name) ==
    IF Len(sensors) = 0 THEN sensor_to_parts
    ELSE LET sensor_name == Head(sensors)
             listed == IF sensor_name \in DOMAIN sensor_to_parts
                       THEN sensor_to_parts[sensor_name] ELSE <<>>
             parts == IF part_name \in Range(listed) THEN listed
                      ELSE Append(listed, part_name)
         IN  MapSensors(DictSet(sensor_to_parts, sensor_name, parts),
                        Tail(sensors), part_name)

RECURSIVE SensorsOfRoutines(_, _)
SensorsOfRoutines(sensor_to_parts, routines) ==
    IF Len(routines) = 0 THEN sensor_to_parts
    ELSE LET routine == Head(routines)
             part_number == PART_ROUTINE_PATTERN(routine.Name)
             part_name == <<"Part">> \o part_number
         IN  IF part_number = <<>>
             THEN SensorsOfRoutines(sensor_to_parts, Tail(routines))
             ELSE SensorsOfRoutines(
                      MapSensors(sensor_to_parts,
                                 _extract_sensors_from_part_routine(routine, part_name),
                                 part_name),
                      Tail(routines))

extract_all_part_sensors(routines) == SensorsOfRoutines(<<>>, routines)

ExtractPartSensors ==
    /\ call_pc = "call"
    /\ call_result' = extract_all_part_sensors(call_args)
    /\ call_pc' = "returned"
    /\ UNCHANGED call_args
    /\ UNCHANGED otherThanCall

\* ---- the routines of the documents the extraction is run on
PartRoutineNames ==
    { <<"Cm", "1", "_", "Part", "1">>, <<"Cm", "2", "_", "Part", "2">>,
      <<"Cm", "2", "_", "Part", "1", "2">>, <<"Cm", "1", "_", "MM", "1">> }

PartAssignments ==
    {SensorAssignment(sensor, part, "0") :
        sensor \in {"BG1_BGB1", "BG2_BGB1"}, part \in {<<"1">>, <<"2">>}}

PartRungs == {<<>>} \cup {<<a>> : a \in PartAssignments}

PartRoutines ==
    {[Name |-> name, rungs |-> rungs] :
        name \in PartRoutineNames, rungs \in SeqsUpTo(PartRungs, MaxPartRungs)}

InitPartSensors ==
    /\ call_args \in SeqsUpTo(PartRoutines, MaxPartRoutines)
    /\ call_result = <<>>
    /\ call_pc = "call"
    /\ IdleExcept("call")

SpecPartSensors == InitPartSensors /\ [][ExtractPartSensors]_vars

\* ------------------------------------------------------------------ C12
\* the routine is a Part routine for the part of that number
IsPartRoutineFor(routine, part) ==
    \E i \in DOMAIN routine.Name :
        /\ routine.Name[i] = "Part"
        /\ SubSeq(routine.Name, i + 1, Len(routine.Name)) = part
        /\ i >= 4 /\ routine.Name[i - 1] = "_" /\ routine.Name[i - 2] \in Digits

Wires(routine, sensor, part) ==
    \E r \in DOMAIN routine.rungs : \E a \in DOMAIN routine.rungs[r] :
        routine.rungs[r][a].sensor = sensor /\ routine.rungs[r][a].part = part

\* C12: a part is listed for a sensor only if a rung of a Part routine of that
\* part holds the idiom that wires the sensor to that part (an assignment to
\* another part found in the routine adds nothing), and no part is listed
\* twice for one sensor.
C12_SensorToParts ==
    call_pc = "returned" =>
        \A sensor \in DOMAIN call_result :
            /\ \A q \in DOMAIN call_result[sensor] :
                   \E k \in DOMAIN call_args :
                       /\ IsPartRoutineFor(call_args[k], Tail(call_result[sensor][q]))
                       /\ Wires(call_args[k], sensor, Tail(call_result[sensor][q]))
            /\ \A q1, q2 \in DOMAIN call_result[sensor] :
                   call_result[sensor][q1] = call_result[sensor][q2] => q1 = q2

\* the routine of Part1 wires a sensor to Part2 and another to Part1: only the
\* second is listed
C12_Witness ==
    /\ call_pc = "returned"
    /\ Len(call_args) = 1
    /\ call_args[1].Name = <<"Cm", "1", "_", "Part", "1">>
    /\ Wires(call_args[1], "BG1_BGB1", <<"2">>)
    /\ Wires(call_args[1], "BG2_BGB1", <<"1">>)
    /\ DOMAIN call_result = {"BG2_BGB1"}
    /\ call_result["BG2_BGB1"] = <<<<"Part", "1">>>>

\* ================= extract_sequences_with_actuators, called more than once
MaxRuns == 2

\* the next call would read the lines from where the last call left them
ExtractAgain_exhausted ==
    /\ seq_pc = "returned"
    /\ Len(previous_runs) < MaxRuns - 1
    /\ previous_runs' = Append(previous_runs, formatted)
    /\ sequences_dict' = <<>>
    /\ sequence_names' = <<>>
    /\ formatted' = <<>>
    /\ seq_pc' = "call"
    /\ UNCHANGED <<document, program_name, routine_lines, line_idx>>
    /\ UNCHANGED otherThanSeq

\* The next call on the same pipeline and the same document.  The pipeline
\* keeps the navigator and its document between calls and nothing else: the
\* sequences, the sequence names and the loop over the lines are local to a
\* call and start afresh.
ExtractAgain ==
    /\ seq_pc = "returned"
    /\ Len(previous_runs) < MaxRuns - 1
    /\ previous_runs' = Append(previous_runs, formatted)
    /\ routine_lines' = <<>>
    /\ line_idx' = 0
    /\ sequences_dict' = <<>>
    /\ sequence_names' = <<>>
    /\ formatted' = <<>>
    /\ seq_pc' = "call"
    /\ UNCHANGED <<document, program_name>>
    /\ UNCHANGED otherThanSeq

NextTwice == NextSeq \/ ExtractAgain

SpecTwice == InitSeq /\ [][NextTwice]_vars

MkTransitionLine(region, permissions) == [region |-> region, permissions |-> permissions]

\* #region Transition State <index> - <name>
RegionMatch(index, name) == <<[index |-> index, name |-> name]>>

\* EmTransitionStates[<t>].AutoStartPerms.<p> := <value>; //<comment>
\* value and comment are groups 3 and 4 of the match: lists of lexemes and
\* blanks (" "), the comment NoneName when the line has none
PermissionMatch(t, p, value, comment) ==
    [transition_idx |-> t, permission_idx |-> p, value |-> value, comment |-> comment]

\* the name of a region marker is kept only for an index that has none yet
TransitionNamesAfter_first_wins(names, line) ==
    IF line.region # <<>> /\ line.region[1].index \notin DOMAIN names
    THEN DictSet(names, line.region[1].index, line.region[1].name)
    ELSE names

\* transition_names[trans_idx] = trans_name
TransitionNamesAfter(names, line) ==
    IF line.region # <<>>
    THEN DictSet(names, line.region[1].index, line.region[1].name)
    ELSE names

RECURSIVE TransitionsAfterMatches(_, _)
TransitionsAfterMatches(transitions, matches) ==
    IF Len(matches) = 0 THEN transitions
    ELSE LET match == Head(matches)
             permission_value == Strip(match.value)
             comment == IF match.comment = NoneName THEN <<>>
                        ELSE Strip(match.comment)
             permission_data == MkPermission(match.permission_idx, permission_value,
                                             comment)
             listed == IF match.transition_idx \in DOMAIN transitions
                       THEN transitions[match.transition_idx] ELSE <<>>
         IN  TransitionsAfterMatches(
                 DictSet(transitions, match.transition_idx,
                         Append(listed, permission_data)),
                 Tail(matches))

\* the loop over the lines: <<transitions, transition_names>>
RECURSIVE ScanTransitionLines(_, _, _)
ScanTransitionLines(transitions, names, lines) ==
    IF Len(lines) = 0 THEN <<transitions, names>>
    ELSE ScanTransitionLines(
             TransitionsAfterMatches(transitions, Head(lines).permissions),
             TransitionNamesAfter(names, Head(lines)),
             Tail(lines))

transition_find_items(lines) ==
    LET scanned == ScanTransitionLines(<<>>, <<>>, lines)
        transitions == scanned[1]
        transition_names == scanned[2]
        keys == SortedSeq(DOMAIN transitions)
    IN  [k \in DOMAIN keys |->
            MkTransition(keys[k],
                         IF keys[k] \in DOMAIN transition_names
                         THEN transition_names[keys[k]] ELSE NoneName,
                         StableSortBy(transitions[keys[k]],
                                      LAMBDA x : <<x.permission_index>>))]

FindTransitions ==
    /\ call_pc = "call"
    /\ call_result' = transition_find_items(call_args)
    /\ call_pc' = "returned"
    /\ UNCHANGED call_args
    /\ UNCHANGED otherThanCall

\* ---- the routines the extractor is run on
TransitionLines ==
    { MkTransitionLine(RegionMatch(1, <<"Clamp">>), <<>>),
      MkTransitionLine(RegionMatch(1, <<"Open">>), <<>>),
      MkTransitionLine(RegionMatch(2, <<"Clamp">>),
                       <<PermissionMatch(2, 0, <<"CycleEnable">>, <<>>)>>),
      MkTransitionLine(<<>>, <<PermissionMatch(1, 1, <<"MM4_Work">>, <<"Wait for clamp">>)>>),
      MkTransitionLine(<<>>, <<PermissionMatch(1, 0, <<"CycleEnable">>, <<>>)>>),
      MkTransitionLine(<<>>, <<PermissionMatch(2, 1, <<"AllPartsPresent">>, <<>>),
                               PermissionMatch(1, 1, <<"CycleEnable">>, <<>>)>>),
      MkTransitionLine(<<>>, <<PermissionMatch(0, 0, <<"CycleEnable">>, <<>>)>>) }

InitTransitions ==
    /\ call_args \in SeqsUpTo(TransitionLines, MaxLines)
    /\ call_result = <<>>
    /\ call_pc = "call"
    /\ IdleExcept("call")

SpecTransitions == InitTransitions /\ [][FindTransitions]_vars

\* ------------------------------------------------------------------ C14
\* the assignments of the routine, in document order
AllPermissionMatches ==
    Flatten([k \in DOMAIN call_args |-> call_args[k].permissions])

MarkerLines(index) ==
    {k \in DOMAIN call_args :
        call_args[k].region # <<>> /\ call_args[k].region[1].index = index}

LastMarkerName(index) ==
    IF MarkerLines(index) = {} THEN NoneName
    ELSE call_args[CHOOSE k \in MarkerLines(index) :
                       \A j \in MarkerLines(index) : j <= k].region[1].name

\* how often a permission stands in a list
Occurrences(list, x) == Cardinality({i \in DOMAIN list : list[i] = x})

\* C14: the transitions are returned in ascending transition index, each with
\* its permissions in ascending permission index; a transition holds exactly
\* the permissions whose assignment names its index; its name is that of the
\* last region marker of its index in the routine, or null without one.
C14_Transitions ==
    call_pc = "returned" =>
        /\ \A i, j \in DOMAIN call_result :
               i < j => call_result[i].transition_index < call_result[j].transition_index
        /\ {call_result[i].transition_index : i \in DOMAIN call_result}
               = {AllPermissionMatches[m].transition_idx : m \in DOMAIN AllPermissionMatches}
        /\ \A i \in DOMAIN call_result :
               LET t == call_result[i].transition_index
                   perms == call_result[i].permissions
                   own == SelectSeq(AllPermissionMatches,
                                    LAMBDA m : m.transition_idx = t)
                   mine == [m \in DOMAIN own |->
                               MkPermission(own[m].permission_idx, own[m].value,
                                            own[m].comment)]
               IN  /\ \A a, b \in DOMAIN perms :
                          a < b => perms[a].permission_index <= perms[b].permission_index
                   /\ Len(perms) = Len(mine)
                   /\ \A a \in DOMAIN perms :
                          Occurrences(perms, perms[a]) = Occurrences(mine, perms[a])
                   /\ call_result[i].transition_name = LastMarkerName(t)

\* transition 1 has two region markers, one before and one after its
\* assignment, and is named by the second
C14_Witness ==
    /\ call_pc = "returned"
    /\ call_args = <<MkTransitionLine(RegionMatch(1, <<"Clamp">>), <<>>),
                     MkTransitionLine(<<>>, <<PermissionMatch(1, 1, <<"MM4_Work">>,
                                                              <<"Wait for clamp">>)>>),
                     MkTransitionLine(RegionMatch(1, <<"Open">>), <<>>)>>
    /\ Len(call_result) = 1
    /\ call_result[1].transition_name = <<"Open">>

\* ================================================ ActuatorExtractor.find_items
MaxMoves == 3

ActuatorRoutineName == <<"Cm010507", "MM4">>

\* the call find_items(root, 'Cm010507_MM4') on a document whose routine of
\* that name holds the MOVE statements call_args
FindActuators ==
    /\ call_pc = "call"
    /\ call_result' = find_items(<<MkProgram("S010_010UA1_Fixture",
                                             <<MMRoutine("MM4", call_args)>>, <<>>)>>,
                                 ActuatorRoutineName, NoneStr)
    /\ call_pc' = "returned"
    /\ UNCHANGED call_args
    /\ UNCHANGED otherThanCall

\* MOVE statements into the cylinders of the routine's MM and of another
MoveChoices ==
    {MkMove(description, array, index) :
        description \in {<<"Clamp">>, <<"Pin">>},
        array \in MMNames,
        index \in 0..2}

InitActuators ==
    /\ call_args \in SeqsUpTo(MoveChoices, MaxMoves)
    /\ call_result = <<>>
    /\ call_pc = "call"
    /\ IdleExcept("call")

SpecActuators == InitActuators /\ [][FindActuators]_vars

\* ------------------------------------------------------------------ C15
\* the MOVE statements of the routine that the pattern of its MM matches
MoveMatches == SelectSeq(call_args, LAMBDA m : m.array = "MM4")

MoveRecord(m) == [index |-> m.index, description |-> m.description, mm_number |-> "MM4"]

\* C15: the extractor returns one (index, description) record for each MOVE
\* match of the MM routine, in ascending index; two matches of one index
\* are both returned.
C15_Actuators ==
    call_pc = "returned" =>
        /\ Len(call_result) = Len(MoveMatches)
        /\ \A k \in DOMAIN MoveMatches :
               Occurrences(call_result, MoveRecord(MoveMatches[k]))
                   = Occurrences([j \in DOMAIN MoveMatches |-> MoveRecord(MoveMatches[j])],
                                 MoveRecord(MoveMatches[k]))
        /\ \A i, j \in DOMAIN call_result :
               i < j => call_result[i].index <= call_result[j].index

\* index 1 is written twice, before and after index 0: both records are
\* returned, after that of index 0
C15_Witness ==
    /\ call_pc = "returned"
    /\ call_args = <<MkMove(<<"Clamp">>, "MM4", 1), MkMove(<<"Pin">>, "MM4", 0),
                     MkMove(<<"Pin">>, "MM4", 1)>>
    /\ Len(call_result) = 3
    /\ call_result[1].index = 0
    /\ call_result[2].index = 1
    /\ call_result[3].index = 1

\* ------------------------------------------------------------------ C16
\* the assignments of a routine with several sequences, steps and actions,
\* typed (ActionMM4W) and untyped, some of them for a position already assigned
HierarchyLines ==
    {AssignmentLine(q, t, a, IF a = 0 THEN ActionMM4W ELSE <<"W">>) :
        q \in 0..1, t \in 0..2, a \in 0..1}
    \cup {AssignmentLine(0, 0, 0, <<"W">>), AssignmentLine(1, 2, 1, ActionMM4W)}

InitHierarchy ==
    /\ document \in {SingleProgram(lines) : lines \in SeqsUpTo(HierarchyLines, MaxLines)}
    /\ program_name = NoneStr
    /\ SeqStart
    /\ IdleExcept("seq")

SpecHierarchy == InitHierarchy /\ [][NextSeq]_vars

\* C16: in the result sequence_index is unique and ascending within the
\* routine, step_index within each sequence and action_index within each
\* step, and actuator_count is the length of the action's actuators.
C16_Hierarchy ==
    seq_pc = "returned" =>
        /\ \A i, j \in DOMAIN formatted :
               i < j => formatted[i].sequence_index < formatted[j].sequence_index
        /\ \A i \in DOMAIN formatted :
               LET steps == formatted[i].steps
               IN  /\ \A k, l \in DOMAIN steps :
                          k < l => steps[k].step_index < steps[l].step_index
                   /\ \A k \in DOMAIN steps :
                          LET actions == steps[k].actions
                          IN  /\ \A a, b \in DOMAIN actions :
                                     a < b => actions[a].action_index < actions[b].action_index
                              /\ \A a \in DOMAIN actions :
                                     actions[a].actuator_count = Len(actions[a].actuators)

\* the routine assigns sequence 1 before sequence 0 and the position
\* [0][0][0] twice: the result lists sequence 0 first, with one action that
\* has the two actuators of MM4
C16_Witness ==
    /\ seq_pc = "returned"
    /\ routine_lines = <<AssignmentLine(1, 2, 1, <<"W">>),
                         AssignmentLine(0, 0, 0, <<"W">>),
                         AssignmentLine(0, 0, 0, ActionMM4W)>>
    /\ Len(formatted) = 2
    /\ formatted[1].sequence_index = 0
    /\ Len(formatted[1].steps[1].actions) = 1
    /\ formatted[1].steps[1].actions[1].actuator_count = 2

\* ------------------------------------------------------------------ C17
\* the valve mappings of an MM: with and without a manifold, a manifold
\* without a KJ name, positions present, 'N/A' and ''
ValveInfoChoices ==
    {ValveInfo(manifold, valve_work, valve_home) :
        manifold \in {"_010_UA1_KJ1_Hw", "", "Manifold_Hw"},
        valve_work \in {<<"1", "A">>, <<"N/A">>, <<>>},
        valve_home \in {<<"1", "B">>, <<"N/A">>}}

\* every valve-mapping table over MM1 and MM2, the empty one included
ValveNameMappings ==
    UNION {[S -> ValveInfoChoices] : S \in SUBSET MMs}

InitValveNames ==
    /\ common_data \in {MkData(CommonRoutineName, MkSequences(kinds, "one_step")) :
                           kinds \in SeqsUpTo(CommonKinds, 1)}
    /\ model_data \in {MkData(ModelRoutineName, MkSequences(kinds, "one_step")) :
                          kinds \in SeqsUpTo(ModelKinds, 1)}
    /\ all_actuators_data = [mm \in MMs |-> ActuatorsOf(mm, MaxActuators)]
    /\ valve_mappings_data \in ValveNameMappings
    /\ digital_inputs_data = SampleInputs
    /\ transitions_data =
           <<MkTransition(0, <<"Open">>, <<MkPermission(0, <<"CycleEnable">>, <<>>)>>)>>
    /\ DetailStart
    /\ IdleExcept("detail")

SpecValveNames == InitValveNames /\ [][Next]_vars

\* the MMs that have an actuator of the name the row shows
MMsOfRow(row) ==
    {mm \in MMs : \E i \in 0..(MaxActuators - 1) :
        _format_actor_group_name(Actuator(mm, i).description) = row.group_name}

\* the Start Conditions rows and the step rows of the actuators
ActuatorRowIndices ==
    {k \in DOMAIN rows : rows[k].actor_type = "CylinderUnits" /\ MMsOfRow(rows[k]) # {}}

\* '1A' names valve 1
ValveNumberOf(position) == JoinWith(SubSeq(position, 1, Len(position) - 1), "")

ExpectedValveName(row) ==
    LET mm_number == CHOOSE mm \in MMsOfRow(row) : TRUE
    IN  IF mm_number \notin DOMAIN valve_mappings_data THEN NoneStr
        ELSE LET mapping == valve_mappings_data[mm_number]
                 position == IF row.status \in {"AT WORK", "TO WORK"}
                             THEN mapping.valve_work ELSE mapping.valve_home
             IN  IF position = <<>> \/ position = <<"N/A">> THEN NoneStr
                 ELSE IF mapping.manifold = "" THEN NoneStr
                 ELSE IF mapping.manifold = "_010_UA1_KJ1_Hw"
                 THEN "'=KJ1-QMB" \o ValveNumberOf(position)
                 ELSE "N/A"

MaxInputs == 3

\* digital inputs with and without a part assignment, with and without a BG
\* tag name
SensorInputs ==
    {MkInput(tag, part) :
        tag \in {<<"BG1">>, <<"BG1", "BGB1">>, <<"SQ1">>},
        part \in {"N/A", "Part2", "Part10", "PartLeft"}}

InitSensors ==
    /\ common_data = MkData(CommonRoutineName,
                            MkSequences(<<<<"MM1", "Home", 1>>>>, "one_step"))
    /\ model_data \in {MkData(ModelRoutineName, MkSequences(kinds, "one_step")) :
                          kinds \in {<<>>, <<<<"MM1", "Work", 1>>>>}}
    /\ all_actuators_data = [mm \in MMs |-> ActuatorsOf(mm, 1)]
    /\ valve_mappings_data \in ValveMappingChoices
    /\ digital_inputs_data \in SeqsUpTo(SensorInputs, MaxInputs)
    /\ transitions_data =
           <<MkTransition(0, <<"Open">>, <<MkPermission(0, <<"CycleEnable">>, <<>>)>>)>>
    /\ DetailStart
    /\ IdleExcept("detail")

SpecSensors == InitSensors /\ [][Next]_vars

\* the Start Conditions sensor rows, in the order of the sheet
StartSensorRows ==
    SelectSeq(rows, LAMBDA r : r.row_type = "Start Conditions"
                               /\ r.actor_type = "SensorUnits")

\* the inputs the claim lists: a part assignment and a BG tag name
ListedInputs ==
    {k \in DOMAIN digital_inputs_data :
        /\ digital_inputs_data[k].part_assignment # "N/A"
        /\ digital_inputs_data[k].tag_name[1] = "BG1"}

\* the number of a numbered part (-1: a named part)
PartNumber(part_name) ==
    CASE part_name = "Part2" -> 2
      [] part_name = "Part10" -> 10
      [] OTHER -> 0 - 1

\* part order: numbered parts by number, then named parts
PartBefore(p, q) ==
    \/ PartNumber(p) >= 0 /\ PartNumber(q) >= 0 /\ PartNumber(p) < PartNumber(q)
    \/ PartNumber(p) >= 0 /\ PartNumber(q) < 0

\* C18: the Start Conditions sensor rows are one for each digital input that
\* has a part assignment and a tag name starting with 'BG', and no other;
\* the rows of a part are adjacent and the parts follow in part order
\* (numbered parts by number, then named parts); every row has status OFF,
\* whatever the sequences are.
C18_SensorRows ==
    pc \notin {"build", "start_conditions"} =>
        /\ Len(StartSensorRows) = Cardinality(ListedInputs)
        /\ \A k \in ListedInputs :
               Cardinality({i \in DOMAIN StartSensorRows :
                   /\ StartSensorRows[i].group_desc = digital_inputs_data[k].part_assignment
                   /\ StartSensorRows[i].group_name
                          = _format_actor_group_name(digital_inputs_data[k].tag_name)})
               = Cardinality({j \in ListedInputs :
                   /\ digital_inputs_data[j].part_assignment
                          = digital_inputs_data[k].part_assignment
                   /\ digital_inputs_data[j].tag_name = digital_inputs_data[k].tag_name})
        /\ \A i \in DOMAIN StartSensorRows :
               /\ StartSensorRows[i].status = "OFF"
               /\ StartSensorRows[i].standard_duration = "0.0"
        /\ \A i, j \in DOMAIN StartSensorRows :
               i < j => \/ StartSensorRows[i].group_desc = StartSensorRows[j].group_desc
                        \/ PartBefore(StartSensorRows[i].group_desc,
                                      StartSensorRows[j].group_desc)

\* the inputs name PartLeft, Part10 and Part2 in this order: the rows are
\* those of Part2, Part10 and PartLeft
C18_Witness ==
    /\ pc = "saved"
    /\ digital_inputs_data = <<MkInput(<<"BG1">>, "PartLeft"),
                               MkInput(<<"BG1", "BGB1">>, "Part10"),
                               MkInput(<<"BG1">>, "Part2")>>
    /\ Len(StartSensorRows) = 3
    /\ StartSensorRows[1].group_desc = "Part2"
    /\ StartSensorRows[2].group_desc = "Part10"
    /\ StartSensorRows[3].group_desc = "PartLeft"
    /\ Len(model_data.sequences) = 1

\* ------------------------------------------------------------------ C19
\* the rows of the p-th transition start with one state-marker row of the
\* kind its name is tagged with, followed by its wait rows, after the rows
\* of the transition before it
MarkerAsClaimed(p) ==
    LET m == matched[p]
        transition_name == transitions_data[p].transition_name
    IN  /\ m.transition_index = transitions_data[p].transition_index
        /\ rows[m.first_row].row_type =
               IF HasLexeme(transition_name, TransitionStateLexemes)
               THEN "Transition State" ELSE "Fixed State"
        /\ rows[m.first_row].actor_type = NoneStr
        /\ \A k \in (m.first_row + 1)..(m.first_row + m.wait_rows) :
               rows[k].row_type = "Wait Conditions"
        /\ p > 1 => matched[p - 1].last_row < m.first_row

\* the transitions that carry a descriptive name have their marker row
C19_Markers == \A p \in DOMAIN matched : MarkerAsClaimed(p)

\* C19: every transition of the list, in the order of the list, gets exactly
\* one state-marker row before its wait rows, of kind 'Transition State' when
\* its descriptive name is tagged so and 'Fixed State' otherwise, a
\* transition without a descriptive name included: the loop raises for no
\* transition, and once it is over every transition has its marker row.
C19_StateMarker ==
    /\ C19_Markers
    /\ (\E p \in DOMAIN transitions_data :
            transitions_data[p].transition_name = NoneName) => pc # "TypeError"
    /\ pc \in {"save", "saved", "Exception"} =>
           Len(matched) = Len(transitions_data)

\* ------------------------------------------------------------------ C20
\* the number of actuators the actions of the first k steps list
ActuatorsThrough(sequence, k) ==
    Len(Flatten([j \in 1..k |->
            Flatten([a \in DOMAIN sequence.steps[j].actions |->
                        sequence.steps[j].actions[a].actuators])]))

\* the transitions a sequence was correlated to
Correlated == {p \in DOMAIN matched : matched[p].position # 0}

NameRowOf(p) == matched[p].first_row + matched[p].wait_rows + 1

\* the name row of the correlated sequence comes first, after the wait rows
NameRowFirst(p) ==
    /\ NameRowOf(p) <= matched[p].last_row
    /\ rows[NameRowOf(p)].row_type = "Transition State"
    /\ rows[NameRowOf(p)].custom_desc
           = model_data.sequences[matched[p].position].sequence_name

StartRowsZero ==
    \A k \in DOMAIN rows :
        rows[k].row_type = "Start Conditions" => rows[k].standard_duration = "0.0"

C21_AtLeastOneRow ==
    wait_pc = "returned" => Len(wait_conditions) >= 1

\* the same for the permissions the part rules (AllParts, Part<n>Present)
\* do not take
C21_OtherRules ==
    (wait_pc = "returned"
        /\ BranchTaken(wait_permission.permission_value, wait_permission.comment)
               \notin {1, 2})
        => Len(wait_conditions) = 1

\* ------------------------------------------------------------------ C22
\* group 3 or 4 of a match: a lexeme with or without blanks around it
Padded(lexemes) ==
    {pre \o <<lexeme>> \o post :
        lexeme \in lexemes, pre \in {<<>>, <<" ">>}, post \in {<<>>, <<" ">>}}

\* the loop of _write_transitions_section over the permissions of the
\* extracted transitions: the wait conditions of all of them, in order
ExpandPermissions ==
    /\ call_pc = "returned"
    /\ \E digital_inputs \in InputChoices :
           call_result' =
               [transitions |-> call_result,
                digital_inputs |-> digital_inputs,
                wait_conditions |->
                    Flatten([i \in DOMAIN call_result |->
                        Flatten([k \in DOMAIN call_result[i].permissions |->
                            _expand_permission_to_wait_conditions(
                                call_result[i].permissions[k], digital_inputs)])])]
    /\ call_pc' = "expanded"
    /\ UNCHANGED call_args
    /\ UNCHANGED otherThanCall

\* a routine of one line with the assignment of permission 1 of transition 3
InitPermission ==
    /\ call_args \in
           {<<MkTransitionLine(<<>>, <<PermissionMatch(3, 1, value, comment)>>)>> :
               value \in Padded(ValueLexemes),
               comment \in {NoneName} \cup Padded(CommentLexemes)}
    /\ call_result = <<>>
    /\ call_pc = "call"
    /\ IdleExcept("call")

NextPermission ==
    \/ FindTransitions
    \/ ExpandPermissions

SpecPermission == InitPermission /\ [][NextPermission]_vars

\* the lexeme of the assigned value and of its comment (<<>>: no comment)
AssignedValue ==
    SelectSeq(call_args[1].permissions[1].value, LAMBDA x : x # " ")

AssignedComment ==
    IF call_args[1].permissions[1].comment = NoneName THEN <<>>
    ELSE SelectSeq(call_args[1].permissions[1].comment, LAMBDA x : x # " ")

\* the assignment is extracted as permission 1 of transition 3 with the
\* trimmed value and the trimmed comment
ExtractedAsClaimed(transitions) ==
    /\ Len(transitions) = 1
    /\ transitions[1].transition_index = 3
    /\ Len(transitions[1].permissions) = 1
    /\ transitions[1].permissions[1].permission_index = 1
    /\ transitions[1].permissions[1].permission_value = AssignedValue
    /\ transitions[1].permissions[1].comment = AssignedComment

\* the values that name the home / the work position of MM4
NamesHome == {"MM4.stsAtHome"}
NamesWork == {"MM4_Work", "MM4_WORK"}

\* no rule before the cylinder-position rule applies
CylinderRuleFirst ==
    \A r \in 1..5 : ~RuleCondition(r, AssignedValue, AssignedComment)

OneCylinderRow(conditions, status) ==
    /\ Len(conditions) = 1
    /\ conditions[1].actor_type = "CylinderUnits"
    /\ conditions[1].group_name = "MM4"
    /\ conditions[1].status = status

C22_Extraction ==
    /\ call_pc = "returned" => ExtractedAsClaimed(call_result)
    /\ call_pc = "expanded" => ExtractedAsClaimed(call_result.transitions)

\* the expansion for the values spelt Home / Work as in the pattern
C22_ExactCase ==
    (call_pc = "expanded" /\ CylinderRuleFirst) =>
        /\ AssignedValue[1] = "MM4.stsAtHome" =>
               OneCylinderRow(call_result.wait_conditions, "TO HOME")
        /\ AssignedValue[1] = "MM4_Work" =>
               OneCylinderRow(call_result.wait_conditions, "TO WORK")

\* C22: the assignment is extracted as permission p of transition t with the
\* trimmed value and the trimmed comment (empty when omitted); when the
\* value references MM<n> with Home or Work and no rule of higher precedence
\* applies, the expansion is one CylinderUnits row for MM<n>, at HOME when
\* the value names the home position and at WORK when it names the work
\* position.
C22_PermissionToCylinderRow ==
    /\ C22_Extraction
    /\ (call_pc = "expanded" /\ CylinderRuleFirst) =>
           /\ AssignedValue[1] \in NamesHome =>
                  OneCylinderRow(call_result.wait_conditions, "TO HOME")
           /\ AssignedValue[1] \in NamesWork =>
                  OneCylinderRow(call_result.wait_conditions, "TO WORK")

\* ------------------------------------------------------------------ C23
\* the assignments of the routine, in document order
AssignmentList ==
    Flatten([k \in DOMAIN routine_lines |-> routine_lines[k].assignments])

\* the assignments no later assignment of the same position replaces
EffectiveAssignments ==
    {k \in DOMAIN AssignmentList :
        \A j \in (k + 1)..Len(AssignmentList) :
            <<AssignmentList[j].seq_idx, AssignmentList[j].step_idx,
              AssignmentList[j].action_idx>>
                # <<AssignmentList[k].seq_idx, AssignmentList[k].step_idx,
                    AssignmentList[k].action_idx>>}

\* the actions of the result at sequence s, step t, action index a
ActionsAt(s, t, a) ==
    UNION {UNION {{formatted[q].steps[j].actions[i] :
                      i \in {x \in DOMAIN formatted[q].steps[j].actions :
                                formatted[q].steps[j].actions[x].action_index = a}} :
                  j \in {x \in DOMAIN formatted[q].steps :
                            formatted[q].steps[x].step_index = t}} :
           q \in {x \in DOMAIN formatted : formatted[x].sequence_index = s}}

\* the programs the routine under extraction belongs to: the program named
\* in the call, the whole document without one
ExtractionScope ==
    IF program_name # NoneStr /\ \E k \in DOMAIN document : document[k].Name = program_name
    THEN <<OwnProgram>>
    ELSE document

\* the records of the MOVE calls for <mm_number>Cyls next to the routine,
\* in ascending index
MoveRecordsFor(mm_number) ==
    LET moves == SelectSeq(Flatten([k \in DOMAIN AllRoutines(ExtractionScope) |->
                               AllRoutines(ExtractionScope)[k].moves]),
                           LAMBDA m : m.array = mm_number)
    IN  StableSortBy([k \in DOMAIN moves |->
                         [index |-> moves[k].index,
                          description |-> moves[k].description,
                          mm_number |-> mm_number]],
                     LAMBDA x : <<x.index>>)

ActionAsClaimed(assignment) ==
    LET found == ActionsAt(assignment.seq_idx, assignment.step_idx,
                           assignment.action_idx)
    IN  /\ Cardinality(found) = 1
        /\ \A action \in found :
               /\ action.action_name = assignment.action_name
               /\ action.mm_number # NoneStr =>
                      action.actuators = MoveRecordsFor(action.mm_number)

\* C23: every matched action assignment yields an action at its sequence,
\* step and action index with the assigned name; when the name is typed with
\* MM<n>, the actuators of the action are exactly the records of the MOVE
\* calls for MM<n>Cyls that stand next to the routine.
C23_ActionOfAssignment ==
    seq_pc = "returned" =>
        \A k \in EffectiveAssignments : ActionAsClaimed(AssignmentList[k])

\* the same for a document with one program
C23_OneProgram ==
    (seq_pc = "returned" /\ Len(document) = 1) =>
        \A k \in EffectiveAssignments : ActionAsClaimed(AssignmentList[k])

\* ------------------------------------------------------------------ C24
\* a program with or without the sequence routine, the MM4 routine and the
\* array tag MM4Cyls
LookupProgram(name, actuator, has_sequence, has_mm, has_tag) ==
    MkProgram(name,
              (IF has_sequence
               THEN <<SeqRoutine(<<AssignmentLine(0, 0, 0, ActionMM4W)>>)>> ELSE <<>>)
              \o (IF has_mm
                  THEN <<MMRoutine("MM4", <<MkMove(<<actuator, "MMB1">>, "MM4", 0)>>)>>
                  ELSE <<>>),
              IF has_tag THEN <<MkTag("MM4Cyls", <<"1">>, 1)>> ELSE <<>>)

LookupPrograms(name, actuator) ==
    {LookupProgram(name, actuator, has_sequence, has_mm, has_tag) :
        has_sequence \in BOOLEAN, has_mm \in BOOLEAN, has_tag \in BOOLEAN}

\* the extraction asked for the whole document, for a program of the
\* document and for a program the document does not have
InitAbsent ==
    /\ document \in {<<p1>> : p1 \in LookupPrograms("S010_010UA1_Fixture", "F1MM4")}
                    \cup {<<p1, p2>> :
                             p1 \in LookupPrograms("S010_010UA1_Fixture", "F1MM4"),
                             p2 \in LookupPrograms("S020_020UA1_Fixture", "F2MM4")}
    /\ program_name \in {NoneStr, "S010_010UA1_Fixture", "S030_030UA1_Fixture"}
    /\ SeqStart
    /\ IdleExcept("seq")

SpecAbsent == InitAbsent /\ [][NextSeq]_vars

ProgramAbsent ==
    program_name # NoneStr /\ \A k \in DOMAIN document : document[k].Name # program_name

\* the routines and tags of the requested scope: those of the named
\* program, of the whole document without a program name, none for a
\* program that is absent
RequestedRoutines ==
    IF program_name = NoneStr THEN AllRoutines(document)
    ELSE IF ProgramAbsent THEN <<>>
    ELSE OwnProgram.routines

SequenceRoutineAbsent ==
    \A k \in DOMAIN RequestedRoutines : RequestedRoutines[k].Name # ModelRoutineName

\* the actuators and the dimension are looked up in the whole document
ActuatorsAndValidationAsClaimed ==
    \A action \in FormattedActions :
        action.mm_number # NoneStr =>
            /\ (\A k \in DOMAIN AllRoutines(document) :
                    ~MatchesMMRoutine(AllRoutines(document)[k].Name, action.mm_number))
                   => action.actuators = <<>>
            /\ (\A k \in DOMAIN AllTags(document) :
                    AllTags(document)[k].Name # action.mm_number \o "Cyls")
                   => /\ Len(action.validation) = 1
                      /\ action.validation[1].is_valid = NoneStr

\* a routine absent from the whole document gives the empty list, an MM
\* routine absent from it no actuator, a tag absent from it the validation
\* 'unknown'
C24_AbsentFromDocument ==
    seq_pc = "returned" =>
        /\ (\A k \in DOMAIN AllRoutines(document) :
                AllRoutines(document)[k].Name # ModelRoutineName) => formatted = <<>>
        /\ ActuatorsAndValidationAsClaimed

\* C24: a routine, a program or a tag that is absent at the requested scope
\* gives an empty result (the empty list, no actuator, the validation
\* 'unknown') and the extraction returns.
C24_AbsentIsEmpty ==
    seq_pc = "returned" =>
        /\ ProgramAbsent => formatted = <<>>
        /\ SequenceRoutineAbsent => formatted = <<>>
        /\ ActuatorsAndValidationAsClaimed

\* ------------------------------------------------------------------ C25
Baseline == InitialCylinderState(all_actuators_data, valve_mappings_data)

ReplayedSequences == common_data.sequences \o FirstSequenceOf(model_data)

\* the entry of the key but for its state
SameButState(entry, other) == [entry EXCEPT !.state = other.state] = other

OverridesKeepEntries ==
    pc # "build" =>
        /\ DOMAIN cylinder_state = EnumeratedKeys
        /\ DOMAIN cylinder_state = DOMAIN Baseline
        /\ \A key \in DOMAIN cylinder_state :
               /\ SameButState(Baseline[key], cylinder_state[key])
               /\ References(ReplayedSequences, key) = {}
                      => cylinder_state[key] = Baseline[key]

TimelineKeepsState ==
    pc # "build" => cylinder_state' = cylinder_state

\* C25: the common and the model override pass change only the state of the
\* actuators of the baseline enumeration: no (MM, index) entry is added or
\* removed, no description and no valve data changes, an untyped action and
\* an action naming an actuator that is not enumerated change nothing; and
\* writing the transition timeline leaves every start state as it is.
C25_OnlyState == [](OverridesKeepEntries) /\ [][TimelineKeepsState]_vars

UnenumeratedNamed ==
    \E q \in DOMAIN ReplayedSequences :
        \E t \in DOMAIN ReplayedSequences[q].steps :
            \E a \in DOMAIN ReplayedSequences[q].steps[t].actions :
                LET action == ReplayedSequences[q].steps[t].actions[a]
                IN  \E k \in DOMAIN action.actuators :
                        <<action.mm_number, action.actuators[k].index>> \notin EnumeratedKeys

UntypedReplayed ==
    \E q \in DOMAIN ReplayedSequences :
        \E t \in DOMAIN ReplayedSequences[q].steps :
            \E a \in DOMAIN ReplayedSequences[q].steps[t].actions :
                ReplayedSequences[q].steps[t].actions[a].mm_number = NoneStr

\* the replay held an untyped action and an action naming an actuator that
\* is not enumerated, it moved an enumerated actuator to WORK, and the
\* timeline wrote the step rows of a matched sequence
C25_Witness ==
    /\ pc = "saved"
    /\ UnenumeratedNamed
    /\ UntypedReplayed
    /\ \E key \in EnumeratedKeys : cylinder_state[key].state # Baseline[key].state
    /\ \E p \in DOMAIN matched : matched[p].position # 0
    /\ \E k \in DOMAIN rows : rows[k].row_type = "Step1"

\* ------------------------------------------------------------------ C26
\* the name rows written for the sequence at the list position
NameRowsOf(position) ==
    {k \in DOMAIN rows :
        /\ rows[k].row_type = "Transition State"
        /\ rows[k].custom_desc = model_data.sequences[position].sequence_name
        /\ \E p \in DOMAIN matched :
               /\ matched[p].position = position
               /\ k = matched[p].first_row + matched[p].wait_rows + 1}

\* C26: no sequence is correlated to more than one transition: two distinct
\* transitions of a timeline that are both matched are matched to different
\* sequences, so the name row and the step rows of a sequence are written at
\* most once.
C26_OneTransitionPerSequence ==
    /\ \A p, q \in DOMAIN matched :
           (p # q /\ matched[p].position # 0 /\ matched[q].position # 0)
               => matched[p].position # matched[q].position
    /\ \A position \in DOMAIN model_data.sequences :
           Cardinality(NameRowsOf(position)) <= 1

\* ------------------------------------------------------------------ C27
RowTypes == {rows[k].row_type : k \in DOMAIN rows}

\* C27: the ID of the Start Conditions Header row is 1 and the ID grows by
\* exactly 1 with every row written after it, whatever the rows are: no ID is
\* skipped and none is repeated.
C27_ConsecutiveIds ==
    /\ rows # <<>> =>
           /\ rows[1].row_type = "Start Conditions Header"
           /\ rows[1].id = 1
    /\ \A k \in DOMAIN rows : k > 1 => rows[k].id = rows[k - 1].id + 1
    /\ \A j, k \in DOMAIN rows : j # k => rows[j].id # rows[k].id

\* a saved sheet with cylinder and sensor rows, the Sequence Header, wait
\* rows, a sequence name row, step rows and End Of Sequence
C27_Witness ==
    /\ pc = "saved"
    /\ {"Start Conditions", "Sequence Header", "Wait Conditions",
        "Transition State", "Step1", "Step2"} \subseteq RowTypes
    /\ \E k \in DOMAIN rows : rows[k].actor_type = "SensorUnits"
    /\ \E k \in DOMAIN rows : rows[k].actor_type = "CylinderUnits"
    /\ rows[Len(rows)].custom_desc = "End Of Sequence"
    /\ rows[Len(rows)].id = Len(rows)

\* ------------------------------------------------------------------ C28
\* The export run on the actuator tables of MM2 and MM10, with and without
\* digital inputs, on every short list of transitions and of model sequences.
OrderTables ==
    { [mm \in {"MM10", "MM2"} |-> ActuatorsOf(mm, MaxActuators)],
      [mm \in {"MM10"} |-> ActuatorsOf(mm, 1)],
      [mm \in {"MM2", "MM1"} |-> ActuatorsOf(mm, 1)] }

InitOrder ==
    /\ common_data = MkData(CommonRoutineName, <<>>)
    /\ model_data \in TimelineModels
    /\ all_actuators_data \in OrderTables
    /\ valve_mappings_data =
           [mm \in {"MM1"} |-> ValveInfo("_010_UA1_KJ1_Hw", <<"1", "A">>, <<"N/A">>)]
    /\ digital_inputs_data \in {<<>>, SampleInputs}
    /\ transitions_data \in TimelineTransitions
    /\ DetailStart
    /\ IdleExcept("detail")

SpecOrder == InitOrder /\ [][Next]_vars

\* the number in an MM tag name
MMNumberOf(mm) == IF mm = "MM10" THEN 10 ELSE IF mm = "MM2" THEN 2 ELSE 1

CylinderStartRows ==
    {k \in DOMAIN rows : rows[k].row_type = "Start Conditions"
                         /\ rows[k].actor_type = "CylinderUnits"}

SensorStartRows ==
    {k \in DOMAIN rows : rows[k].row_type = "Start Conditions"
                         /\ rows[k].actor_type = "SensorUnits"}

\* the enumerated actuator a cylinder start row is about
KeyOfRow(k) ==
    CHOOSE key \in EnumeratedKeys :
        rows[k].group_name = _format_actor_group_name(Actuator(key[1], key[2]).description)

HeaderRows ==
    {k \in DOMAIN rows : /\ rows[k].row_type = "Sequence Header"
                         /\ rows[k].custom_desc # "End Of Sequence"}

EndRows ==
    {k \in DOMAIN rows : /\ rows[k].row_type = "Sequence Header"
                         /\ rows[k].custom_desc = "End Of Sequence"}

StartCount == 1 + Cardinality(CylinderStartRows) + Cardinality(SensorStartRows)

StartPartInOrder ==
    /\ rows[1].row_type = "Start Conditions Header"
    /\ Cardinality(CylinderStartRows) = Cardinality(EnumeratedKeys)
    /\ CylinderStartRows = 2..(1 + Cardinality(CylinderStartRows))
    /\ SensorStartRows = (2 + Cardinality(CylinderStartRows))..StartCount
    /\ \A j, k \in CylinderStartRows :
           j < k => TupleLess(<<MMNumberOf(KeyOfRow(j)[1]), KeyOfRow(j)[2]>>,
                              <<MMNumberOf(KeyOfRow(k)[1]), KeyOfRow(k)[2]>>)

TimelinePartInOrder ==
    IF Len(transitions_data) = 0
    THEN /\ HeaderRows = {}
         /\ EndRows = {}
         /\ Len(rows) = StartCount
    ELSE /\ HeaderRows = {StartCount + 1}
         /\ EndRows = {Len(rows)}
         /\ Len(matched) = Len(transitions_data)
         /\ matched[1].first_row = StartCount + 2
         /\ matched[Len(matched)].last_row = Len(rows) - 1
         /\ \A p \in DOMAIN matched :
                /\ matched[p].transition_index = transitions_data[p].transition_index
                /\ rows[matched[p].first_row]
                       = [StateMarkerRow(transitions_data[p].transition_name,
                                         sequence_style(model_data))
                              EXCEPT !.id = matched[p].first_row]
                /\ p < Len(matched) => matched[p + 1].first_row = matched[p].last_row + 1

\* C28: the rows of the sheet are, in this order, the Start Conditions Header,
\* the cylinder start rows sorted by the number of the MM and then by the
\* actuator index, the sensor start rows, and then, if and only if there is
\* a transition, one Sequence Header row, the blocks of the transitions in
\* list order and one End Of Sequence row as the last row.
C28_RowOrder ==
    /\ pc \notin {"build", "start_conditions"} => StartPartInOrder
    /\ pc \in {"save", "saved", "Exception"} => TimelinePartInOrder

\* a saved sheet with the rows of MM2 before those of MM10, sensor rows and
\* the blocks of two transitions
C28_Witness ==
    /\ pc = "saved"
    /\ \E j, k \in CylinderStartRows :
           j < k /\ KeyOfRow(j)[1] = "MM2" /\ KeyOfRow(k)[1] = "MM10"
    /\ SensorStartRows # {}
    /\ Len(matched) = 2
    /\ \E p \in DOMAIN matched : matched[p].position # 0

\* ------------------------------------------------------------------ C29
\* a count of the permissions instead of the transitions
transition_format_output_counting_permissions(routine_name, items) ==
    [routine_name |-> routine_name,
     extractor_type |-> "TransitionExtractor",
     transition_count |-> Len(Flatten([i \in DOMAIN items |-> items[i].permissions])),
     transitions |-> items]

\* TransitionExtractor.format_output
transition_format_output(routine_name, items) ==
    [routine_name |-> routine_name,
     extractor_type |-> "TransitionExtractor",
     transition_count |-> Len(items),
     transitions |-> items]

FormatTransitions ==
    /\ call_pc = "returned"
    /\ call_result' = transition_format_output(ModelRoutineName, call_result)
    /\ call_pc' = "formatted"
    /\ UNCHANGED call_args
    /\ UNCHANGED otherThanCall

\* the lines of C14 and a line that assigns permission 0 of transition 0
\* once more
CountLines ==
    TransitionLines
    \cup {MkTransitionLine(<<>>, <<PermissionMatch(0, 0, <<"AllPartsPresent">>, <<>>),
                                   PermissionMatch(2, 0, <<"CycleEnable">>, <<>>)>>)}

InitCount ==
    /\ call_args \in SeqsUpTo(CountLines, MaxLines)
    /\ call_result = <<>>
    /\ call_pc = "call"
    /\ IdleExcept("call")

NextCount == FindTransitions \/ FormatTransitions

SpecCount == InitCount /\ [][NextCount]_vars

MatchedIndices ==
    {AllPermissionMatches[m].transition_idx : m \in DOMAIN AllPermissionMatches}

MarkedIndices ==
    {call_args[k].region[1].index : k \in {j \in DOMAIN call_args : call_args[j].region # <<>>}}

\* C29: a transition index is in the output if and only if at least one
\* permission assignment of that index matched: a #region marker without a
\* permission makes no transition; transition_count is the number of
\* distinct indices; the permission_count of a transition is the length of
\* its permissions, and the permissions that share a permission index are
\* all kept.
C29_Counts ==
    call_pc = "formatted" =>
        LET items == call_result.transitions
        IN  /\ {items[i].transition_index : i \in DOMAIN items} = MatchedIndices
            /\ \A t \in MarkedIndices \ MatchedIndices :
                   \A i \in DOMAIN items : items[i].transition_index # t
            /\ call_result.transition_count = Cardinality(MatchedIndices)
            /\ \A i, j \in DOMAIN items :
                   i # j => items[i].transition_index # items[j].transition_index
            /\ \A i \in DOMAIN items :
                   /\ items[i].permission_count = Len(items[i].permissions)
                   /\ Len(items[i].permissions)
                          = Cardinality({m \in DOMAIN AllPermissionMatches :
                                AllPermissionMatches[m].transition_idx
                                    = items[i].transition_index})

\* a marker of transition 1 without a permission, two transitions in the
\* output, one of them with two permissions of the same permission index
C29_Witness ==
    /\ call_pc = "formatted"
    /\ 1 \in MarkedIndices \ MatchedIndices
    /\ call_result.transition_count = 2
    /\ \E i \in DOMAIN call_result.transitions :
           LET perms == call_result.transitions[i].permissions
           IN  \E a, b \in DOMAIN perms :
                   a # b /\ perms[a].permission_index = perms[b].permission_index

\* ------------------------------------------------------------------ C30
PositionOf(assignment) ==
    <<assignment.seq_idx, assignment.step_idx, assignment.action_idx>>

\* the positions that are assigned more than once
ReassignedPositions ==
    {PositionOf(AssignmentList[k]) :
        k \in {i \in DOMAIN AssignmentList :
                  \E j \in DOMAIN AssignmentList :
                      j # i /\ PositionOf(AssignmentList[j]) = PositionOf(AssignmentList[i])}}

LastAssignmentOf(position) ==
    AssignmentList[CHOOSE k \in EffectiveAssignments :
                       PositionOf(AssignmentList[k]) = position]

\* C30: when a (sequence, step, action) position is assigned more than once,
\* the result holds exactly one action for it, and that action has the name,
\* the MM, the state and the actuators of the last assignment in document
\* order.
C30_LastAssignment ==
    seq_pc = "returned" =>
        \A position \in ReassignedPositions :
            LET last == LastAssignmentOf(position)
                parsed == parse_action_name(last.action_name)
                found == ActionsAt(position[1], position[2], position[3])
            IN  /\ Cardinality(found) = 1
                /\ \A action \in found :
                       /\ action.action_name = last.action_name
                       /\ action.mm_number = IF parsed = <<>> THEN NoneStr ELSE parsed[1]
                       /\ action.state = IF parsed = <<>> THEN NoneStr ELSE parsed[2]
                       /\ action.actuators = IF parsed = <<>> THEN <<>>
                                             ELSE MoveRecordsFor(parsed[1])

\* a position assigned an untyped action and then ActionMM4W: the result
\* has the MM4 action with its two actuators
C30_Witness ==
    /\ seq_pc = "returned"
    /\ \E j, k \in DOMAIN AssignmentList :
           /\ j < k
           /\ k \in EffectiveAssignments
           /\ PositionOf(AssignmentList[j]) = PositionOf(AssignmentList[k])
           /\ AssignmentList[j].action_name = <<"W">>
           /\ AssignmentList[k].action_name = ActionMM4W
           /\ \E action \in ActionsAt(AssignmentList[k].seq_idx,
                                      AssignmentList[k].step_idx,
                                      AssignmentList[k].action_idx) :
                  /\ action.mm_number = "MM4"
                  /\ Len(action.actuators) = 2

====
